---------------------------- MODULE Spec2Model ----------------------------
(***************************************************************************)
(* A model of the web module of G5U: the BrowseTheWeb ability, the Element *)
(* question, the selector resolution they rest on (recursiveLocatorLookup) *)
(* and the actor's activity queue (attemptsTo / asks).                     *)
(*                                                                         *)
(* Time is discrete.  A page is a small tree of nodes; a node carries a    *)
(* tag, its own text, and the flags the state checks read.                 *)
(***************************************************************************)
EXTENDS Integers, Sequences, FiniteSets, TLC

(***************************************************************************)
(* Bounds of the model.                                                    *)
(***************************************************************************)
\* deepest chain (selector plus nested subSelector levels) drawn as an input
MaxDepth == 3
\* how often the environment may re-render (show or hide) a node of a page
MaxChanges == 1
\* scheduling slack: a bounded wait ends at most this long after its limit
Slack == 1

\* the timeout a lookup or an expectation gets when the caller gives none
defaultWaitTimeout == 2

(***************************************************************************)
(* The page: the table of the 'Wait + Recursive Locators' test, cut down.  *)
(* Nodes are numbered in document order; 0 is the page itself.             *)
(*     1 table                                                             *)
(*        2 tr                                                             *)
(*           3 td   4 td                                                   *)
(*        5 tr                                                             *)
(*           6 td   7 td                                                   *)
(***************************************************************************)
Nodes == 1..7

Page == 0

parent == <<0, 1, 2, 2, 1, 5, 5>>

tag == <<"table", "tr", "td", "td", "tr", "td", "td">>

\* nodes carrying the disabled attribute, and the readonly attribute
disabledNodes == {4, 7}

readonlyNodes == {6, 7}

\* nodes whose rendering the environment may change
DynNodes == {2, 5}

Children(n) == {m \in Nodes : parent[m] = n}

RECURSIVE Ancestors(_)
Ancestors(n) ==
    IF n = Page THEN {} ELSE {parent[n]} \cup Ancestors(parent[n])

Descendants(n) == {m \in Nodes : n \in Ancestors(m)}

\* the sequence of the elements of a set of nodes, in document order
RECURSIVE InOrder(_)
InOrder(S) ==
    IF S = {} THEN <<>>
    ELSE LET m == CHOOSE x \in S : \A y \in S : x <= y
         IN  <<m>> \o InOrder(S \ {m})

RECURSIVE Concat(_, _)
Concat(f, order) ==
    IF order = <<>> THEN <<>>
    ELSE f[Head(order)] \o Concat(f, Tail(order))

\* textOf(node): the rendered text of a node is its own text followed by the
\* text of the nodes below it, in document order (own: node -> its own text)
textOf(own, n) == own[n] \o Concat(own, InOrder(Descendants(n)))

\* case-sensitive substring
Contains(str, sub) ==
    \E i \in 0..(Len(str) - Len(sub)) : SubSeq(str, i + 1, i + Len(sub)) = sub

(***************************************************************************)
(* Selectors and selector options.  A selector is an opaque query string.  *)
(* SelectorOptions is an object with optional fields, modelled as a record *)
(* holding only the fields that are set:                                   *)
(*    hasText, subSelector: <<selector>> or <<selector, options>>,         *)
(*    timeout, state, modifiers.                                           *)
(* Options that are undefined are the record with no field.                *)
(***************************************************************************)
NoOptions == [k \in {} |-> 0]

\* { ...o, k: v }
With(o, k, v) == [f \in DOMAIN o \cup {k} |-> IF f = k THEN v ELSE o[f]]

\* { k: o?.k } for the keys ks: a field that is undefined counts as unset
Pick(o, ks) == [f \in DOMAIN o \cap ks |-> o[f]]

Has(o, k) == k \in DOMAIN o

\* the text filter of a level; the empty text stands for none
hasTextOf(o) == IF Has(o, "hasText") THEN o.hasText ELSE <<>>

\* options?.timeout, with the default when it is undefined
timeoutOf(o) == IF Has(o, "timeout") THEN o.timeout ELSE defaultWaitTimeout

\* the fields an outer level hands down to the level nested in it
Inherited == {"state", "timeout", "modifiers"}

(***************************************************************************)
(* query(scope, queryString) and the text filter, on a page whose nodes'   *)
(* own texts are own.  A scope is a set of nodes or the page.              *)
(***************************************************************************)
query(scopeNodes, isPage, base) ==
    {n \in Nodes : /\ tag[n] = base
                   /\ \/ isPage
                      \/ \E s \in scopeNodes : s \in Ancestors(n)}

filterText(own, cands, text) ==
    {n \in cands : Contains(textOf(own, n), text)}

(***************************************************************************)
(* resolve(scope, spec, options) -> Handle, the recursive descent of       *)
(* recursiveLocatorLookup.  A Handle is a lazy reference bound to          *)
(* (scope, base, filter); its scope is the page or the Handle of the       *)
(* previous chain link.  With the Handle comes the state and timeout in    *)
(* effect at the innermost level: the outer level's, unless set there.     *)
(***************************************************************************)
PageScope(p) == [page |-> p]

IsPage(h) == "page" \in DOMAIN h

\* carry the outer state/timeout/modifiers down, the inner level's own first
MergeDown(outer, inner) ==
    [f \in DOMAIN inner \cup (DOMAIN outer \cap Inherited) |->
        IF f \in DOMAIN inner THEN inner[f] ELSE outer[f]]

\* one narrowing step of the descent: the level's query description, the
\* state/timeout/modifiers in effect at the level, and whether its text
\* filter forces the candidates of the level to be queried at once
NarrowingStep(scope, selector, options) ==
    [scope |-> scope, base |-> selector, filter |-> hasTextOf(options),
     inEffect |-> Pick(options, Inherited),
     eager |-> hasTextOf(options) # <<>>]

RECURSIVE resolve(_, _, _)
resolve(scope, selector, options) ==
    LET H == [scope |-> scope, base |-> selector, filter |-> hasTextOf(options)]
        step == NarrowingStep(scope, selector, options)
    IN  IF Has(options, "subSelector")
        THEN LET sub == options.subSelector
                 inner == IF Len(sub) >= 2 THEN sub[2] ELSE NoOptions
                 r == resolve(H, sub[1], MergeDown(options, inner))
             IN  [r EXCEPT !.steps = <<step>> \o @]
        ELSE [invalid |-> FALSE, handle |-> H, options |-> options,
              steps |-> <<step>>]

\* a base is usable when it is a query string that is not empty; a
\* subSelector is well formed when it is <<selector>> or <<selector, options>>
\* and is well formed in turn
RECURSIVE WellFormed(_, _)
WellFormed(selector, options) ==
    /\ selector # ""
    /\ Has(options, "subSelector") =>
          /\ Len(options.subSelector) \in {1, 2}
          /\ WellFormed(options.subSelector[1],
                        IF Len(options.subSelector) = 2
                        THEN options.subSelector[2] ELSE NoOptions)

\* what resolve fails with on a malformed chain: no Handle, no step taken
InvalidSpec(page) ==
    [invalid |-> TRUE, handle |-> PageScope(page), options |-> NoOptions,
     steps |-> <<>>]

\* the recursiveLocatorLookup call of the ability methods
recursiveLocatorLookup(page, selector, options) ==
    IF WellFormed(selector, options)
    THEN resolve(PageScope(page), selector, options)
    ELSE InvalidSpec(page)

\* the nodes a Handle stands for when it is queried against the live tree
RECURSIVE Materialize(_, _)
Materialize(own, h) ==
    IF IsPage(h) THEN {}
    ELSE filterText(own,
                    query(Materialize(own, h.scope), IsPage(h.scope), h.base),
                    h.filter)

\* the node an operation on the Handle acts on: the first match, 0 for none
Target(own, h) ==
    LET c == Materialize(own, h)
    IN  IF c = {} THEN 0 ELSE CHOOSE x \in c : \A y \in c : x <= y


(***************************************************************************)
(* The state predicates a wait polls, on a page with own texts own, own    *)
(* input values vals and rendered nodes vis.  t is a Handle's target.      *)
(***************************************************************************)
Visible(vis, t) == t # 0 /\ t \in vis /\ Ancestors(t) \ {Page} \subseteq vis

Enabled(t) == t # 0 /\ t \notin disabledNodes

Editable(t) == Enabled(t) /\ t \notin readonlyNodes

\* locator.waitFor({ state }): the state the lookup waits for
StateHolds(state, vis, t) ==
    CASE state = "visible"  -> Visible(vis, t)
      [] state = "hidden"   -> ~Visible(vis, t)
      [] state = "attached" -> t # 0
      [] state = "detached" -> t = 0
      [] OTHER              -> TRUE

\* expect(locator).<matcher>: an expectation other than toBeVisible/toBeHidden
\* does not match, negated or not, while the locator has no element; an
\* element operation (click, fill, ...) waits for an actionable element
StepHolds(step, arg, own, vals, vis, t) ==
    CASE step = "toBeVisible"     -> Visible(vis, t)
      [] step = "toBeHidden"      -> ~Visible(vis, t)
      [] step = "toBeEnabled"     -> t # 0 /\ Enabled(t)
      [] step = "toBeDisabled"    -> t # 0 /\ ~Enabled(t)
      [] step = "toBeEditable"    -> t # 0 /\ Editable(t)
      [] step = "notToBeEditable" -> t # 0 /\ ~Editable(t)
      [] step = "toHaveText"      -> t # 0 /\ textOf(own, t) = arg
      [] step = "notToHaveText"   -> t # 0 /\ textOf(own, t) # arg
      [] step = "toHaveValue"     -> t # 0 /\ vals[t] = arg
      [] step = "notToHaveValue"  -> t # 0 /\ vals[t] # arg
      [] step = "hover"           -> Visible(vis, t)
      [] step = "fill"            -> Visible(vis, t) /\ Editable(t)
      [] step = "type"            -> t # 0
      [] OTHER                    -> Visible(vis, t) /\ Enabled(t)

(***************************************************************************)
(* JavaScript values and JSON.  A value is undefined, null, a boolean, a   *)
(* number, a string (a sequence of characters) or an array of values.      *)
(* JSON.stringify writes a value as text and JSON.parse reads text back;   *)
(* `if (value)` tests the value's truthiness.                              *)
(***************************************************************************)
Undefined == [kind |-> "undefined"]

JSNull == [kind |-> "null"]

Bool(b) == [kind |-> "boolean", b |-> b]

Num(n) == [kind |-> "number", n |-> n]

Text(s) == [kind |-> "string", s |-> s]

List(items) == [kind |-> "array", items |-> items]

\* ToBoolean
Truthy(v) ==
    CASE v.kind = "undefined" -> FALSE
      [] v.kind = "null"      -> FALSE
      [] v.kind = "boolean"   -> v.b
      [] v.kind = "number"    -> v.n # 0
      [] v.kind = "string"    -> v.s # <<>>
      [] OTHER                -> TRUE

DigitChars == <<"0", "1", "2", "3", "4", "5", "6", "7", "8", "9">>

DigitValue(c) == (CHOOSE d \in 1..Len(DigitChars) : DigitChars[d] = c) - 1

\* the decimal digits of a natural number
RECURSIVE Digits(_)
Digits(n) ==
    IF n < Len(DigitChars) THEN <<DigitChars[n + 1]>>
    ELSE Digits(n \div Len(DigitChars)) \o <<DigitChars[(n % Len(DigitChars)) + 1]>>

\* the characters of a string with the quote and the backslash escaped
RECURSIVE Escaped(_)
Escaped(str) ==
    IF str = <<>> THEN <<>>
    ELSE (IF Head(str) \in {"\"", "\\"} THEN <<"\\", Head(str)>> ELSE <<Head(str)>>)
         \o Escaped(Tail(str))

RECURSIVE Joined(_)
Joined(texts) ==
    IF texts = <<>> THEN <<>>
    ELSE IF Len(texts) = 1 THEN texts[1]
    ELSE texts[1] \o <<",">> \o Joined(Tail(texts))

\* JSON.stringify(v), for a value that JSON can express
RECURSIVE JSON_stringify(_)
JSON_stringify(v) ==
    CASE v.kind = "null"    -> <<"n", "u", "l", "l">>
      [] v.kind = "boolean" -> IF v.b THEN <<"t", "r", "u", "e">>
                               ELSE <<"f", "a", "l", "s", "e">>
      [] v.kind = "number"  -> IF v.n < 0 THEN <<"-">> \o Digits(0 - v.n)
                               ELSE Digits(v.n)
      [] v.kind = "string"  -> <<"\"">> \o Escaped(v.s) \o <<"\"">>
      [] v.kind = "array"   ->
           <<"[">> \o Joined([j \in 1..Len(v.items) |-> JSON_stringify(v.items[j])])
                   \o <<"]">>

RECURSIVE NumberOf(_)
NumberOf(txt) ==
    IF txt = <<>> THEN 0
    ELSE NumberOf(SubSeq(txt, 1, Len(txt) - 1)) * Len(DigitChars)
         + DigitValue(txt[Len(txt)])

RECURSIVE Unescaped(_)
Unescaped(txt) ==
    IF txt = <<>> THEN <<>>
    ELSE IF Head(txt) = "\\" THEN <<txt[2]>> \o Unescaped(SubSeq(txt, 3, Len(txt)))
    ELSE <<Head(txt)>> \o Unescaped(Tail(txt))

\* the texts of the items of an array's text, split at the commas that are
\* not part of a string; cur is the item being read, inStr whether the
\* reader is inside a string, esc whether the last character was a backslash
RECURSIVE Items(_, _, _, _)
Items(txt, cur, inStr, esc) ==
    IF txt = <<>> THEN (IF cur = <<>> THEN <<>> ELSE <<cur>>)
    ELSE LET c == Head(txt)
         IN  IF c = "," /\ ~inStr
             THEN <<cur>> \o Items(Tail(txt), <<>>, FALSE, FALSE)
             ELSE Items(Tail(txt), Append(cur, c),
                        IF c = "\"" /\ ~esc THEN ~inStr ELSE inStr,
                        c = "\\" /\ ~esc)

\* JSON.parse(txt), for a text that JSON.stringify has written
RECURSIVE JSON_parse(_)
JSON_parse(txt) ==
    CASE txt = <<"n", "u", "l", "l">>      -> JSNull
      [] txt = <<"t", "r", "u", "e">>      -> Bool(TRUE)
      [] txt = <<"f", "a", "l", "s", "e">> -> Bool(FALSE)
      [] Head(txt) = "\"" ->
           Text(Unescaped(SubSeq(txt, 2, Len(txt) - 1)))
      [] Head(txt) = "[" ->
           LET items == Items(SubSeq(txt, 2, Len(txt) - 1), <<>>, FALSE, FALSE)
           IN  List([j \in 1..Len(items) |-> JSON_parse(items[j])])
      [] Head(txt) = "-" -> Num(0 - NumberOf(Tail(txt)))
      [] OTHER -> Num(NumberOf(txt))

(***************************************************************************)
(* State.                                                                  *)
(***************************************************************************)
Keys == {"localKey", "sessionKey"}

Areas == {"local", "session"}

\* no storage call yet
NoCall == [method |-> "none", key |-> "", result |-> Undefined]

Actors == {1, 2}

Pages == {1, 2}

VARIABLES
    ownText,    \* ownText[p][n]: the own text of node n of page p
    values,     \* values[p][n]: the input value of node n of page p
    shown,      \* shown[p]: the nodes of page p that are rendered
    changes,    \* how often the environment has re-rendered a node
    abilityOf,  \* abilityOf[a]: the BrowseTheWeb ability actor a was given
    queue,      \* queue[a]: the activities of the actor's current attemptsTo
    idx,        \* idx[a]: the activity whose promise attemptsTo awaits
    status,     \* status[a]: idle | running | done | failed
    ops,        \* ops[a]: the activities started so far, one record each
    focus,      \* focus[p]: the node of page p that has the focus, 0 for none
    localStorage,    \* localStorage[p][k]: the item of key k, as stored
    sessionStorage,  \* sessionStorage[p][k]: the item of key k, as stored
    written,    \* written[area][p][k]: the value last set and not removed
    answer,     \* what the last storage call was and what it resolved to
    cookies,    \* cookies[p]: the cookies of the browser context of page p
    calls,      \* the latest cookie calls and what they resolved to
    element,    \* the Element question the test code holds and builds on
    built       \* how element was created and the last mode operator called

storageVars == <<localStorage, sessionStorage, written, answer>>

cookieVars == <<cookies, calls>>

builderVars == <<element, built>>

vars == <<ownText, values, shown, changes, abilityOf, queue, idx, status, ops,
          focus, storageVars, cookieVars, builderVars>>

(***************************************************************************)
(* The BrowseTheWeb ability.  An ability holds its page.  A method is      *)
(* modelled by what it does, in order: the lookups it awaits, the step on  *)
(* the Handle it then awaits (an expectation or an element operation, with *)
(* its options and argument), the value it resolves to, and what becomes   *)
(* of a failed step (no method catches: the rejection propagates).         *)
(***************************************************************************)
BrowseTheWeb_using(page) == [page |-> page]

Lookup(self, selector, options) ==
    [page |-> self.page, selector |-> selector, options |-> options]

\* writes: the assignments the method makes to fields of the options object
\* it was passed, in order (no method makes any: { ...options, state } is a
\* new object)
Method(lookups, step, stepOptions, arg, returns) ==
    [lookups |-> lookups, step |-> step, stepOptions |-> stepOptions,
     arg |-> arg, returns |-> returns, onFail |-> "throw", writes |-> <<>>]

\* the object after the assignments <<field, value>> made to it
RECURSIVE Assigned(_, _)
Assigned(object, writes) ==
    IF writes = <<>> THEN object
    ELSE Assigned(With(object, writes[1][1], writes[1][2]), Tail(writes))

\* a checkBox that swallows a failed check and resolves
checkBox_catching(self, selector, options) ==
    [Method(<<Lookup(self, selector, options)>>, "check", NoOptions, <<>>, "void")
     EXCEPT !.onFail = "void"]

checkBox(self, selector, options) ==
    Method(<<Lookup(self, selector, options)>>, "check", NoOptions, <<>>, "void")

dblclick(self, selector, options) ==
    Method(<<Lookup(self, selector, options)>>, "dblclick", NoOptions, <<>>, "void")

selectOption(self, selector, option, selectorOptions) ==
    Method(<<Lookup(self, selector, selectorOptions)>>, "selectOption", NoOptions,
           option, "any")

\* options?.source, options?.target
Part(options, k) == IF Has(options, k) THEN options[k] ELSE NoOptions

\* a dragAndDrop that looks the source up first
dragAndDrop_sourceFirst(self, sourceSelector, targetSelector, options) ==
    Method(<<Lookup(self, sourceSelector, Part(options, "source")),
             Lookup(self, targetSelector, Part(options, "target"))>>,
           "dragTo", NoOptions, <<>>, "void")

dragAndDrop(self, sourceSelector, targetSelector, options) ==
    Method(<<Lookup(self, targetSelector, Part(options, "target")),
             Lookup(self, sourceSelector, Part(options, "source"))>>,
           "dragTo", NoOptions, <<>>, "void")

\* a waitForSelector that hands on the outermost level only
waitForSelector_outermostOnly(self, selector, options) ==
    Method(<<Lookup(self, selector,
                    [k \in DOMAIN options \ {"subSelector"} |-> options[k]])>>,
           "none", NoOptions, <<>>, "locator")

\* a waitForSelector that keeps state between calls: after the first call
\* it narrows by what it remembers
waitForSelector_remembering(self, selector, options) ==
    Method(<<Lookup(self, selector,
                    IF ops[1] = <<>> THEN options
                    ELSE With(options, "hasText", <<"b">>))>>,
           "none", NoOptions, <<>>, "locator")

\* a waitForSelector that catches what the lookup fails with
waitForSelector_catching(self, selector, options) ==
    [Method(<<Lookup(self, selector, options)>>, "none", NoOptions, <<>>, "locator")
     EXCEPT !.onFail = "undefined"]

\* a waitForSelector that forgets the options it was given
waitForSelector_noOptions(self, selector, options) ==
    Method(<<Lookup(self, selector, NoOptions)>>, "none", NoOptions, <<>>, "locator")

waitForSelector(self, selector, options) ==
    Method(<<Lookup(self, selector, options)>>, "none", NoOptions, <<>>, "locator")

hover(self, selector, options) ==
    Method(<<Lookup(self, selector, options)>>, "hover",
           Pick(options, {"modifiers"}), <<>>, "void")

\* a type that replaces what the element holds, as fill does
type_replacing(self, selector, input, options) ==
    Method(<<Lookup(self, selector, options)>>, "fill", NoOptions, input, "void")

type(self, selector, input, options) ==
    Method(<<Lookup(self, selector, options)>>, "type", NoOptions, input, "void")

\* a fill that has the lookup wait for a visible element first
fill_visibleFirst(self, selector, input, options) ==
    Method(<<Lookup(self, selector, With(options, "state", "visible"))>>,
           "fill", NoOptions, input, "void")

fill(self, selector, input, options) ==
    Method(<<Lookup(self, selector, options)>>, "fill", NoOptions, input, "void")

\* a click that has the lookup make sure of an element
click_attached(self, selector, options) ==
    Method(<<Lookup(self, selector, With(options, "state", "attached"))>>,
           "click", NoOptions, <<>>, "void")

\* a click that forgets the options it was given
click_noOptions(self, selector, options) ==
    Method(<<Lookup(self, selector, NoOptions)>>, "click", NoOptions, <<>>, "void")

\* a click that catches the failed wait and resolves
click_catching(self, selector, options) ==
    [Method(<<Lookup(self, selector, options)>>, "click", NoOptions, <<>>, "void")
     EXCEPT !.onFail = "void"]

click(self, selector, options) ==
    Method(<<Lookup(self, selector, options)>>, "click", NoOptions, <<>>, "void")

\* a checkVisibilityState that catches the failed wait and resolves to false
checkVisibilityState_catching(self, selector, mode, options) ==
    [Method(<<Lookup(self, selector,
                     With(options, "state",
                          IF mode = "visible" THEN "visible" ELSE "hidden"))>>,
            IF mode = "visible" THEN "toBeVisible" ELSE "toBeHidden",
            Pick(options, {"timeout"}), <<>>, "true")
     EXCEPT !.onFail = "false"]

\* a checkVisibilityState that keeps the caller's timeout from the lookup
checkVisibilityState_ownLimit(self, selector, mode, options) ==
    Method(<<Lookup(self, selector,
                    With(NoOptions, "state",
                         IF mode = "visible" THEN "visible" ELSE "hidden"))>>,
           IF mode = "visible" THEN "toBeVisible" ELSE "toBeHidden",
           Pick(options, {"timeout"}), <<>>, "true")

checkVisibilityState(self, selector, mode, options) ==
    IF mode = "visible"
    THEN Method(<<Lookup(self, selector, With(options, "state", "visible"))>>,
                "toBeVisible", Pick(options, {"timeout"}), <<>>, "true")
    ELSE Method(<<Lookup(self, selector, With(options, "state", "hidden"))>>,
                "toBeHidden", Pick(options, {"timeout"}), <<>>, "true")

\* a checkEnabledState whose disabled branch looks the element up attached
checkEnabledState_attached(self, selector, mode, options) ==
    IF mode = "enabled"
    THEN Method(<<Lookup(self, selector, With(options, "state", "visible"))>>,
                "toBeEnabled", Pick(options, {"timeout"}), <<>>, "true")
    ELSE Method(<<Lookup(self, selector, With(options, "state", "attached"))>>,
                "toBeDisabled", Pick(options, {"timeout"}), <<>>, "true")

checkEnabledState(self, selector, mode, options) ==
    IF mode = "enabled"
    THEN Method(<<Lookup(self, selector, With(options, "state", "visible"))>>,
                "toBeEnabled", Pick(options, {"timeout"}), <<>>, "true")
    ELSE Method(<<Lookup(self, selector, With(options, "state", "visible"))>>,
                "toBeDisabled", Pick(options, {"timeout"}), <<>>, "true")

checkEditableState(self, selector, mode, options) ==
    IF mode = "editable"
    THEN Method(<<Lookup(self, selector, With(options, "state", "visible"))>>,
                "toBeEditable", Pick(options, {"timeout"}), <<>>, "true")
    ELSE Method(<<Lookup(self, selector, With(options, "state", "visible"))>>,
                "notToBeEditable", Pick(options, {"timeout"}), <<>>, "true")

\* a checkSelectorText that sets the state in the options object it was
\* passed (options.state = "visible") instead of building a new one
checkSelectorText_assigning(self, selector, text, mode, options) ==
    [Method(<<Lookup(self, selector, With(options, "state", "visible"))>>,
            IF mode = "has" THEN "toHaveText" ELSE "notToHaveText",
            Pick(options, {"timeout"}), text, "true")
     EXCEPT !.writes = <<<<"state", "visible">>>>]

checkSelectorText(self, selector, text, mode, options) ==
    IF mode = "has"
    THEN Method(<<Lookup(self, selector, With(options, "state", "visible"))>>,
                "toHaveText", Pick(options, {"timeout"}), text, "true")
    ELSE Method(<<Lookup(self, selector, With(options, "state", "visible"))>>,
                "notToHaveText", Pick(options, {"timeout"}), text, "true")

checkSelectorValue(self, selector, val, mode, options) ==
    IF mode = "has"
    THEN Method(<<Lookup(self, selector, With(options, "state", "visible"))>>,
                "toHaveValue", Pick(options, {"timeout"}), val, "true")
    ELSE Method(<<Lookup(self, selector, With(options, "state", "visible"))>>,
                "notToHaveValue", Pick(options, {"timeout"}), val, "true")

(***************************************************************************)
(* The Element question.  A payload is a text, a sequence of characters,   *)
(* or an array of texts, here a sequence of one-character texts.           *)
(***************************************************************************)
Str(s) == [isArray |-> FALSE, v |-> s]

Arr(s) == [isArray |-> TRUE, v |-> s]

NewElement(checkMode) ==
    [checkMode |-> checkMode, mode |-> "visible", selector |-> "",
     payload |-> Str(<<>>), options |-> NoOptions]

Element_toBe == NewElement("toBe")

Element_notToBe == NewElement("notToBe")

Element_toHave == NewElement("toBe")

Element_notToHave == NewElement("notToBe")

\* a value that does not replace the payload of an earlier call
value_keepingPayload(el, selector, val, options) ==
    [el EXCEPT !.mode = "value", !.selector = selector, !.options = options]

\* an enabled that does not replace the options of an earlier call
enabled_keepingOptions(el, selector, options) ==
    [el EXCEPT !.mode = "enabled", !.selector = selector]

visible(el, selector, options) ==
    [el EXCEPT !.mode = "visible", !.selector = selector, !.options = options]

enabled(el, selector, options) ==
    [el EXCEPT !.mode = "enabled", !.selector = selector, !.options = options]

text(el, selector, txt, options) ==
    [el EXCEPT !.mode = "text", !.selector = selector, !.payload = txt,
               !.options = options]

value(el, selector, val, options) ==
    [el EXCEPT !.mode = "value", !.selector = selector, !.payload = val,
               !.options = options]

editable(el, selector, options) ==
    [el EXCEPT !.mode = "editable", !.selector = selector, !.options = options]

\* what is known of an Element from the calls made on it: the checkMode it
\* was created with, and the mode, selector, payload and options of the last
\* mode operator called (of the field initialisers if none was)
Built(el) ==
    [checkMode |-> el.checkMode,
     last |-> [mode |-> el.mode, selector |-> el.selector,
               payload |-> el.payload, options |-> el.options]]

ModeCall(mode, selector, payload, options) ==
    [mode |-> mode, selector |-> selector, payload |-> payload, options |-> options]

\* what answeredBy starts: the ability method it awaits, or the error it throws
Throws(message) == [throws |-> TRUE, message |-> message]

\* the promise handed back is the method's own: it settles when the method does
Awaits(method) == [throws |-> FALSE, method |-> method, chained |-> TRUE]

\* an answeredBy that hands a payload of any shape to checkSelectorValue
answeredBy_anyPayload(el, ability) ==
    CASE el.mode = "visible" ->
           Awaits(checkVisibilityState(ability, el.selector,
               IF el.checkMode = "toBe" THEN "visible" ELSE "hidden", el.options))
      [] el.mode = "enabled" ->
           Awaits(checkEnabledState(ability, el.selector,
               IF el.checkMode = "toBe" THEN "enabled" ELSE "disabled", el.options))
      [] el.mode = "editable" ->
           Awaits(checkEditableState(ability, el.selector,
               IF el.checkMode = "toBe" THEN "editable" ELSE "notEditable", el.options))
      [] el.mode = "text" ->
           Awaits(checkSelectorText(ability, el.selector, el.payload.v,
               IF el.checkMode = "toBe" THEN "has" ELSE "hasNot", el.options))
      [] el.mode = "value" ->
           Awaits(checkSelectorValue(ability, el.selector, el.payload.v,
               IF el.checkMode = "toBe" THEN "has" ELSE "hasNot", el.options))
      [] OTHER -> Throws("Unknown mode: Element.answeredBy")

\* an answeredBy that asks for the state opposite to the one requested
answeredBy_swapped(el, ability) ==
    CASE el.mode = "visible" ->
           Awaits(checkVisibilityState(ability, el.selector,
               IF el.checkMode = "toBe" THEN "hidden" ELSE "visible", el.options))
      [] el.mode = "enabled" ->
           Awaits(checkEnabledState(ability, el.selector,
               IF el.checkMode = "toBe" THEN "disabled" ELSE "enabled", el.options))
      [] el.mode = "editable" ->
           Awaits(checkEditableState(ability, el.selector,
               IF el.checkMode = "toBe" THEN "notEditable" ELSE "editable", el.options))
      [] el.mode = "text" ->
           Awaits(checkSelectorText(ability, el.selector, el.payload.v,
               IF el.checkMode = "toBe" THEN "hasNot" ELSE "has", el.options))
      [] el.mode = "value" ->
           IF ~el.payload.isArray
           THEN Awaits(checkSelectorValue(ability, el.selector, el.payload.v,
                    IF el.checkMode = "toBe" THEN "hasNot" ELSE "has", el.options))
           ELSE Throws("Element.value: incompatible payload! Arrays can not be checked.")
      [] OTHER -> Throws("Unknown mode: Element.answeredBy")

answeredBy(el, ability) ==
    CASE el.mode = "visible" ->
           Awaits(checkVisibilityState(ability, el.selector,
               IF el.checkMode = "toBe" THEN "visible" ELSE "hidden", el.options))
      [] el.mode = "enabled" ->
           Awaits(checkEnabledState(ability, el.selector,
               IF el.checkMode = "toBe" THEN "enabled" ELSE "disabled", el.options))
      [] el.mode = "editable" ->
           Awaits(checkEditableState(ability, el.selector,
               IF el.checkMode = "toBe" THEN "editable" ELSE "notEditable", el.options))
      [] el.mode = "text" ->
           Awaits(checkSelectorText(ability, el.selector, el.payload.v,
               IF el.checkMode = "toBe" THEN "has" ELSE "hasNot", el.options))
      [] el.mode = "value" ->
           IF ~el.payload.isArray
           THEN Awaits(checkSelectorValue(ability, el.selector, el.payload.v,
                    IF el.checkMode = "toBe" THEN "has" ELSE "hasNot", el.options))
           ELSE Throws("Element.value: incompatible payload! Arrays can not be checked.")
      [] OTHER -> Throws("Unknown mode: Element.answeredBy")


(***************************************************************************)
(* Activities: the Actions and Questions an actor is handed.  performAs /  *)
(* answeredBy start an ability method and hand back its promise.           *)
(***************************************************************************)
Fill_in(selector, input) == [type |-> "Fill", locator |-> selector, input |-> input]

Click_on(selector, options) ==
    [type |-> "Click", selector |-> selector, options |-> options]

Wait_forSelector(selector, options) ==
    [type |-> "Wait", selector |-> selector, options |-> options]

Type_in(selector, input) == [type |-> "Type", locator |-> selector, input |-> input]

Check_element(selector, options) ==
    [type |-> "Check", selector |-> selector, options |-> options]

DoubleClick_on(selector, options) ==
    [type |-> "DoubleClick", selector |-> selector, options |-> options]

Select_option(selector, option, options) ==
    [type |-> "Select", selector |-> selector, option |-> option, options |-> options]

DragAndDrop_execute(source, target, options) ==
    [type |-> "DragAndDrop", source |-> source, target |-> target,
     options |-> options]

Hover_over(selector, options) ==
    [type |-> "Hover", selector |-> selector, options |-> options]

Ask(el) == [type |-> "Element", el |-> el]

\* a performAs that starts the fill and does not hand back its promise
Fill_performAs_detached(activity, ability) ==
    [Awaits(fill(ability, activity.locator, activity.input, NoOptions))
     EXCEPT !.chained = FALSE]

Fill_performAs(activity, ability) ==
    Awaits(fill(ability, activity.locator, activity.input, NoOptions))

Click_performAs(activity, ability) ==
    Awaits(click(ability, activity.selector, activity.options))

Wait_performAs(activity, ability) ==
    Awaits(waitForSelector(ability, activity.selector, activity.options))

Type_performAs(activity, ability) ==
    Awaits(type(ability, activity.locator, activity.input, NoOptions))

Check_performAs(activity, ability) ==
    Awaits(checkBox(ability, activity.selector, activity.options))

DoubleClick_performAs(activity, ability) ==
    Awaits(dblclick(ability, activity.selector, activity.options))

Select_performAs(activity, ability) ==
    Awaits(selectOption(ability, activity.selector, activity.option,
                        activity.options))

DragAndDrop_performAs(activity, ability) ==
    Awaits(dragAndDrop(ability, activity.source, activity.target, activity.options))

Hover_performAs(activity, ability) ==
    Awaits(hover(ability, activity.selector, activity.options))

performAs(activity, ability) ==
    CASE activity.type = "Fill"    -> Fill_performAs(activity, ability)
      [] activity.type = "Type"    -> Type_performAs(activity, ability)
      [] activity.type = "Hover"   -> Hover_performAs(activity, ability)
      [] activity.type = "Check"   -> Check_performAs(activity, ability)
      [] activity.type = "DoubleClick" -> DoubleClick_performAs(activity, ability)
      [] activity.type = "Select"  -> Select_performAs(activity, ability)
      [] activity.type = "DragAndDrop" -> DragAndDrop_performAs(activity, ability)
      [] activity.type = "Click"   -> Click_performAs(activity, ability)
      [] activity.type = "Wait"    -> Wait_performAs(activity, ability)
      [] activity.type = "Element" -> answeredBy(activity.el, ability)

\* an as that hands every actor the ability of the first
BrowseTheWeb_as_shared(actor) == abilityOf[1]

\* BrowseTheWeb.as(actor): the ability the actor holds
BrowseTheWeb_as(actor) == abilityOf[actor]

None == [kind |-> "none"]

Value(v) == [kind |-> "value", value |-> v]

TimeoutError(elapsed, limit) ==
    [kind |-> "error", name |-> "TimeoutError", elapsed |-> elapsed, limit |-> limit]

\* the latest a wait in flight may end: a lookup that waits for no state
\* only composes the query and takes no time
Waits(op) == op.pc = "step" \/ Has(recursiveLocatorLookup(op.plan.lookups[op.k].page,
                                    op.plan.lookups[op.k].selector,
                                    op.plan.lookups[op.k].options).options, "state")

Error(message) == [kind |-> "error", name |-> "Error", message |-> message]

NoMethod == Method(<<>>, "none", NoOptions, <<>>, "void")

\* the record of an activity that has just been started: where its method
\* stands (pc, k, wait, total), what it resolves or rejects with (out), and,
\* for the properties, what its lookup found (found), whether that was a
\* visible element (seen), whether one of its waits timed out (timedOut)
\* and how often it has had the live tree queried (queries)
SelectorOf(activity) ==
    CASE activity.type \in {"Fill", "Type"} -> activity.locator
      [] activity.type = "Element" -> activity.el.selector
      [] OTHER                     -> activity.selector

OptionsOf(activity) ==
    CASE activity.type \in {"Fill", "Type"} -> NoOptions
      [] activity.type = "Element" -> activity.el.options
      [] OTHER                     -> activity.options

\* an operation in flight or ended: acted counts the times its step has
\* acted on the element, left is the options object the caller passed as
\* the method leaves it
StartOp(activity, actor) ==
    LET r == performAs(activity, BrowseTheWeb_as(actor))
    IN  IF r.throws
        THEN [pc |-> "threw", plan |-> NoMethod, chained |-> TRUE, k |-> 0,
              wait |-> 0, total |-> 0, found |-> 0, seen |-> FALSE,
              timedOut |-> FALSE, queries |-> 0, acted |-> 0,
              left |-> OptionsOf(activity), out |-> Error(r.message)]
        ELSE [pc |-> "lookup", plan |-> r.method, chained |-> r.chained, k |-> 1,
              wait |-> 0, total |-> 0, found |-> 0, seen |-> FALSE,
              timedOut |-> FALSE, queries |-> 0, acted |-> 0,
              left |-> Assigned(OptionsOf(activity), r.method.writes),
              out |-> None]

InFlight(a) == {i \in 1..Len(ops[a]) : ops[a][i].pc \in {"lookup", "step"}}

Completed(op) == op.pc \in {"returned", "threw"}

\* the promise attemptsTo awaits is settled
Settled(op) == ~op.chained \/ Completed(op)

\* the lookup an operation is waiting in, resolved
CurLookup(op) == op.plan.lookups[op.k]

Resolved(op) ==
    LET L == CurLookup(op)
    IN  recursiveLocatorLookup(L.page, L.selector, L.options)

LookupTarget(op) == Target(ownText[CurLookup(op).page], Resolved(op).handle)

LookupWaits(op) == Has(Resolved(op).options, "state")

\* the queries a lookup has issued by the time it ends: one for every level
\* whose text filter is evaluated at once, one for the state it waits for
RECURSIVE CountEager(_)
CountEager(steps) ==
    IF steps = <<>> THEN 0
    ELSE (IF steps[1].eager THEN 1 ELSE 0) + CountEager(Tail(steps))

LookupQueries(op) ==
    CountEager(Resolved(op).steps) + (IF LookupWaits(op) THEN 1 ELSE 0)

LookupHolds(op) ==
    LookupWaits(op) =>
        StateHolds(Resolved(op).options.state, shown[CurLookup(op).page],
                   LookupTarget(op))

StepPage(op) == op.plan.lookups[Len(op.plan.lookups)].page

StepTarget(op) ==
    LET L == op.plan.lookups[Len(op.plan.lookups)]
    IN  Target(ownText[L.page],
               recursiveLocatorLookup(L.page, L.selector, L.options).handle)

\* locator.dragTo(target) needs the element it drops on as well: the Handle
\* of the first lookup
StepOk(op) ==
    /\ StepHolds(op.plan.step, op.plan.arg, ownText[StepPage(op)],
                 values[StepPage(op)], shown[StepPage(op)], StepTarget(op))
    /\ op.plan.step = "dragTo" =>
          Visible(shown[StepPage(op)],
                  Target(ownText[StepPage(op)],
                         recursiveLocatorLookup(op.plan.lookups[1].page,
                                                op.plan.lookups[1].selector,
                                                op.plan.lookups[1].options).handle))

\* the limit of the wait an operation is in
Limit(op) ==
    IF op.pc = "lookup"
    THEN IF LookupWaits(op) THEN timeoutOf(Resolved(op).options) ELSE 0
    ELSE timeoutOf(op.plan.stepOptions)

Texts == {<<"a">>, <<"b">>}

Init ==
    /\ ownText \in [Pages -> {[n \in Nodes |->
                                 CASE n \in {3, 6} -> <<"a">>
                                   [] n = 4        -> <<"b">>
                                   [] n = 7        -> t
                                   [] OTHER        -> <<>>] : t \in Texts}]
    /\ values = [p \in Pages |-> [n \in Nodes |-> <<>>]]
    /\ shown \in [Pages -> {Nodes \ h : h \in SUBSET DynNodes}]
    /\ changes = 0
    /\ abilityOf = [a \in Actors |-> BrowseTheWeb_using(a)]
    /\ queue = [a \in Actors |-> <<>>]
    /\ idx = [a \in Actors |-> 0]
    /\ status = [a \in Actors |-> "idle"]
    /\ ops = [a \in Actors |-> <<>>]
    /\ focus = [p \in Pages |-> 0]
    /\ localStorage = [p \in Pages |-> [k \in Keys |-> JSNull]]
    /\ sessionStorage = [p \in Pages |-> [k \in Keys |-> JSNull]]
    /\ written = [area \in Areas |-> [p \in Pages |-> [k \in Keys |-> Undefined]]]
    /\ answer = NoCall
    /\ cookies = [p \in Pages |-> <<>>]
    /\ calls = <<>>
    /\ element = Element_toBe
    /\ built = Built(Element_toBe)

(***************************************************************************)
(* The actor's queue.  attemptsTo performs its activities one after the    *)
(* other, awaiting each one's promise; a rejection ends the loop.  An      *)
(* activity starts in the step that resumes the loop.                      *)
(***************************************************************************)
attemptsTo(a, activities) ==
    /\ status[a] = "idle"
    /\ activities # <<>>
    /\ queue' = [queue EXCEPT ![a] = activities]
    /\ idx' = [idx EXCEPT ![a] = 1]
    /\ status' = [status EXCEPT ![a] = "running"]
    /\ ops' = [ops EXCEPT ![a] = <<StartOp(activities[1], a)>>]
    /\ UNCHANGED <<ownText, values, shown, changes, abilityOf,
                   focus, storageVars, cookieVars, builderVars>>

asks(a, question) == attemptsTo(a, <<Ask(question)>>)

Resume(a) ==
    /\ status[a] = "running"
    /\ idx[a] <= Len(ops[a])
    /\ Settled(ops[a][idx[a]])
    /\ IF ops[a][idx[a]].chained /\ ops[a][idx[a]].pc = "threw"
       THEN /\ status' = [status EXCEPT ![a] = "failed"]
            /\ UNCHANGED <<idx, ops>>
       ELSE IF idx[a] < Len(queue[a])
            THEN /\ idx' = [idx EXCEPT ![a] = idx[a] + 1]
                 /\ ops' = [ops EXCEPT ![a] =
                              Append(ops[a], StartOp(queue[a][idx[a] + 1], a))]
                 /\ UNCHANGED status
            ELSE /\ status' = [status EXCEPT ![a] = "done"]
                 /\ UNCHANGED <<idx, ops>>
    /\ UNCHANGED <<ownText, values, shown, changes, abilityOf, queue,
                   focus, storageVars, cookieVars, builderVars>>

(***************************************************************************)
(* An ability method in flight: its lookups, then its step.                *)
(***************************************************************************)
LookupPass(a, i) ==
    LET op == ops[a][i]
        seen == Visible(shown[CurLookup(op).page], LookupTarget(op))
    IN  /\ i \in InFlight(a)
        /\ op.pc = "lookup"
        /\ ~Resolved(op).invalid
        /\ LookupHolds(op)
        /\ ops' = [ops EXCEPT ![a][i] =
             IF op.k < Len(op.plan.lookups)
             THEN [op EXCEPT !.k = op.k + 1, !.wait = 0, !.seen = seen,
                             !.found = LookupTarget(op),
                             !.queries = @ + LookupQueries(op)]
             ELSE IF op.plan.step = "none"
                  THEN [op EXCEPT !.pc = "returned", !.wait = 0, !.total = 0, !.seen = seen,
                                  !.found = LookupTarget(op),
                                  !.queries = @ + LookupQueries(op),
                                  !.out = Value(op.plan.returns)]
                  ELSE [op EXCEPT !.pc = "step", !.wait = 0, !.seen = seen,
                                  !.found = LookupTarget(op),
                                  !.queries = @ + LookupQueries(op)]]
        /\ UNCHANGED <<ownText, values, shown, changes, abilityOf, queue, idx, status,
                       focus, storageVars, cookieVars, builderVars>>

LookupFail(a, i) ==
    LET op == ops[a][i]
    IN  /\ i \in InFlight(a)
        /\ op.pc = "lookup"
        /\ ~Resolved(op).invalid
        /\ ~LookupHolds(op)
        /\ op.wait >= Limit(op)
        /\ ops' = [ops EXCEPT ![a][i] =
                     IF op.plan.onFail = "throw"
                     THEN [op EXCEPT !.pc = "threw", !.wait = 0, !.timedOut = TRUE,
                                     !.queries = @ + LookupQueries(op),
                                     !.out = TimeoutError(op.wait, Limit(op))]
                     ELSE [op EXCEPT !.pc = "returned", !.wait = 0, !.total = 0,
                                     !.timedOut = TRUE,
                                     !.queries = @ + LookupQueries(op),
                                     !.out = Value(op.plan.onFail)]]
        /\ UNCHANGED <<ownText, values, shown, changes, abilityOf, queue, idx, status,
                       focus, storageVars, cookieVars, builderVars>>

\* the lookup of a malformed chain fails at once: nothing is queried and
\* nothing waited for
LookupReject(a, i) ==
    LET op == ops[a][i]
    IN  /\ i \in InFlight(a)
        /\ op.pc = "lookup"
        /\ Resolved(op).invalid
        /\ ops' = [ops EXCEPT ![a][i] =
                     IF op.plan.onFail = "throw"
                     THEN [op EXCEPT !.pc = "threw", !.wait = 0,
                                     !.out = Error("InvalidSpec")]
                     ELSE [op EXCEPT !.pc = "returned", !.wait = 0, !.total = 0,
                                     !.out = Value(op.plan.onFail)]]
        /\ UNCHANGED <<ownText, values, shown, changes, abilityOf, queue, idx, status,
                       focus, storageVars, cookieVars, builderVars>>

\* locator.type(input): the keys go to the element once it has the focus;
\* an element that is not rendered or is disabled takes no focus, a readonly
\* one takes no input.  The text is entered at the caret: at the end of the
\* content where the element kept the focus since its last input, else
\* wherever the caret is put, the start or the end
Typed(content, input, atEnd) ==
    IF atEnd THEN content \o input ELSE input \o content

StepPass(a, i) ==
    LET op == ops[a][i]
        p == StepPage(op)
        t == StepTarget(op)
        takesFocus == Visible(shown[p], t) /\ Enabled(t)
    IN  /\ i \in InFlight(a)
        /\ op.pc = "step"
        /\ StepOk(op)
        /\ ops' = [ops EXCEPT ![a][i] =
                     [op EXCEPT !.pc = "returned", !.wait = 0, !.total = 0,
                                !.queries = @ + 1, !.acted = @ + 1,
                                !.out = Value(op.plan.returns)]]
        /\ \E atEnd \in BOOLEAN :
             values' =
               CASE op.plan.step = "fill" ->
                      [values EXCEPT ![p][t] = op.plan.arg]
                 [] op.plan.step = "type" /\ takesFocus /\ Editable(t) ->
                      [values EXCEPT ![p][t] =
                          Typed(@, op.plan.arg, focus[p] = t \/ atEnd)]
                 [] OTHER -> values
        /\ focus' = [focus EXCEPT ![p] =
                       CASE op.plan.step = "fill" -> t
                         [] op.plan.step = "type" /\ takesFocus -> t
                         [] op.plan.step = "type" -> @
                         [] op.plan.step = "click" -> 0
                         [] OTHER -> @]
        /\ UNCHANGED <<ownText, shown, changes, abilityOf, queue, idx, status,
                       storageVars, cookieVars, builderVars>>

StepFail(a, i) ==
    LET op == ops[a][i]
    IN  /\ i \in InFlight(a)
        /\ op.pc = "step"
        /\ ~StepOk(op)
        /\ op.wait >= Limit(op)
        /\ ops' = [ops EXCEPT ![a][i] =
                     IF op.plan.onFail = "throw"
                     THEN [op EXCEPT !.pc = "threw", !.wait = 0, !.timedOut = TRUE,
                                     !.queries = @ + 1,
                                     !.out = TimeoutError(op.wait, Limit(op))]
                     ELSE [op EXCEPT !.pc = "returned", !.wait = 0, !.total = 0,
                                     !.timedOut = TRUE,
                                     !.queries = @ + 1,
                                     !.out = Value(op.plan.onFail)]]
        /\ UNCHANGED <<ownText, values, shown, changes, abilityOf, queue, idx, status,
                       focus, storageVars, cookieVars, builderVars>>

(***************************************************************************)
(* The environment: time passes for every wait in flight, and no wait      *)
(* outlasts its limit by more than the slack; the page re-renders a node.  *)
(***************************************************************************)
Tick ==
    /\ \E a \in Actors : InFlight(a) # {}
    /\ \A a \in Actors : \A i \in InFlight(a) :
          Waits(ops[a][i]) /\ ops[a][i].wait < Limit(ops[a][i]) + Slack
    /\ ops' = [a \in Actors |->
                 [i \in 1..Len(ops[a]) |->
                    IF i \in InFlight(a)
                    THEN [ops[a][i] EXCEPT !.wait = @ + 1, !.total = @ + 1]
                    ELSE ops[a][i]]]
    /\ UNCHANGED <<ownText, values, shown, changes, abilityOf, queue, idx, status,
                   focus, storageVars, cookieVars, builderVars>>

Render(p, n) ==
    /\ changes < MaxChanges
    /\ n \in DynNodes
    /\ shown' = [shown EXCEPT ![p] = IF n \in @ THEN @ \ {n} ELSE @ \cup {n}]
    /\ changes' = changes + 1
    /\ focus' = [focus EXCEPT ![p] = IF Visible(shown'[p], @) THEN @ ELSE 0]
    /\ UNCHANGED <<ownText, values, abilityOf, queue, idx, status, ops,
                   storageVars, cookieVars, builderVars>>

(***************************************************************************)
(* The test code builds an Element question: a static getter creates it,   *)
(* mode operators set its fields and return it, and it is asked once it is *)
(* built.  value takes a string or pattern; text takes an array as well.   *)
(***************************************************************************)
Element_new(b) ==
    /\ status[1] = "idle"
    /\ element' = b
    /\ built' = Built(b)
    /\ UNCHANGED <<ownText, values, shown, changes, abilityOf, queue, idx,
                   status, ops, focus, storageVars, cookieVars>>

\* a mode operator called on the Element held: next is the Element after it
ModeOperator(next, call) ==
    /\ status[1] = "idle"
    /\ element' = next
    /\ built' = [built EXCEPT !.last = call]
    /\ UNCHANGED <<ownText, values, shown, changes, abilityOf, queue, idx,
                   status, ops, focus, storageVars, cookieVars>>

Element_visible(selector, options) ==
    ModeOperator(visible(element, selector, options),
                 ModeCall("visible", selector, element.payload, options))

Element_enabled(selector, options) ==
    ModeOperator(enabled(element, selector, options),
                 ModeCall("enabled", selector, element.payload, options))

Element_editable(selector, options) ==
    ModeOperator(editable(element, selector, options),
                 ModeCall("editable", selector, element.payload, options))

Element_text(selector, txt, options) ==
    ModeOperator(text(element, selector, txt, options),
                 ModeCall("text", selector, txt, options))

Element_value(selector, val, options) ==
    /\ ~val.isArray
    /\ ModeOperator(value(element, selector, val, options),
                    ModeCall("value", selector, val, options))

(***************************************************************************)
(* Local and session storage.  The methods run a function in the page      *)
(* (page.evaluate) and resolve to what it resolves to.  A storage area     *)
(* holds, for a key, a string or nothing: getItem returns null for a key   *)
(* with no item.  written records the value last set for a key and not     *)
(* removed since (undefined for none), answer the last call.               *)
(***************************************************************************)
Answer(method, key, result) == [method |-> method, key |-> key, result |-> result]

\* a get that parses the item and then tests the value parsed
getLocalStorageItem_parsedFirst(a, key) ==
    LET item == localStorage[abilityOf[a].page][key]
        parsed == IF item = JSNull THEN Undefined ELSE JSON_parse(item.s)
    IN  /\ answer' = Answer("getLocalStorageItem", key,
                            IF Truthy(parsed) THEN parsed ELSE Undefined)
        /\ UNCHANGED <<ownText, values, shown, changes, abilityOf, queue, idx,
                       status, ops, focus, builderVars, localStorage, sessionStorage, written,
                       cookieVars>>

getLocalStorageItem(a, key) ==
    LET item == localStorage[abilityOf[a].page][key]
    IN  /\ answer' = Answer("getLocalStorageItem", key,
                            IF Truthy(item) THEN JSON_parse(item.s) ELSE Undefined)
        /\ UNCHANGED <<ownText, values, shown, changes, abilityOf, queue, idx,
                       status, ops, focus, builderVars, localStorage, sessionStorage, written,
                       cookieVars>>

setLocalStorageItem(a, key, v) ==
    /\ localStorage' = [localStorage EXCEPT ![abilityOf[a].page][key] =
                           Text(JSON_stringify(v))]
    /\ written' = [written EXCEPT !["local"][abilityOf[a].page][key] = v]
    /\ answer' = Answer("setLocalStorageItem", key, Undefined)
    /\ UNCHANGED <<ownText, values, shown, changes, abilityOf, queue, idx,
                   status, ops, focus, builderVars, sessionStorage, cookieVars>>

removeLocalStorageItem(a, key) ==
    /\ localStorage' = [localStorage EXCEPT ![abilityOf[a].page][key] = JSNull]
    /\ written' = [written EXCEPT !["local"][abilityOf[a].page][key] = Undefined]
    /\ answer' = Answer("removeLocalStorageItem", key, Undefined)
    /\ UNCHANGED <<ownText, values, shown, changes, abilityOf, queue, idx,
                   status, ops, focus, builderVars, sessionStorage, cookieVars>>

getSessionStorageItem(a, key) ==
    LET item == sessionStorage[abilityOf[a].page][key]
    IN  /\ answer' = Answer("getSessionStorageItem", key,
                            IF Truthy(item) THEN JSON_parse(item.s) ELSE Undefined)
        /\ UNCHANGED <<ownText, values, shown, changes, abilityOf, queue, idx,
                       status, ops, focus, builderVars, localStorage, sessionStorage, written,
                       cookieVars>>

setSessionStorageItem(a, key, v) ==
    /\ sessionStorage' = [sessionStorage EXCEPT ![abilityOf[a].page][key] =
                             Text(JSON_stringify(v))]
    /\ written' = [written EXCEPT !["session"][abilityOf[a].page][key] = v]
    /\ answer' = Answer("setSessionStorageItem", key, Undefined)
    /\ UNCHANGED <<ownText, values, shown, changes, abilityOf, queue, idx,
                   status, ops, focus, builderVars, localStorage, cookieVars>>

removeSessionStorageItem(a, key) ==
    /\ sessionStorage' = [sessionStorage EXCEPT ![abilityOf[a].page][key] = JSNull]
    /\ written' = [written EXCEPT !["session"][abilityOf[a].page][key] = Undefined]
    /\ answer' = Answer("removeSessionStorageItem", key, Undefined)
    /\ UNCHANGED <<ownText, values, shown, changes, abilityOf, queue, idx,
                   status, ops, focus, builderVars, localStorage, cookieVars>>

(***************************************************************************)
(* Cookies.  The methods forward to the browser context of the page and    *)
(* resolve to what it resolves to.  The context keeps its cookies in the   *)
(* order they were created; a cookie is identified by name, domain and     *)
(* path, and one that is added again replaces the one kept, in its place;  *)
(* a cookie whose expiry has passed is not kept.  A host and a path are    *)
(* sequences of labels and of segments.                                    *)
(***************************************************************************)
\* the time of the run, and expires of a cookie that ends with the session
Clock == 5

SessionCookie == 0 - 1

Cookie(name, v, domain, path, expires, secure) ==
    [name |-> name, value |-> v, domain |-> domain, path |-> path,
     expires |-> expires, httpOnly |-> TRUE, secure |-> secure, sameSite |-> "Lax"]

Url(scheme, host, path) == [scheme |-> scheme, host |-> host, path |-> path]

SameCookie(c, d) == c.name = d.name /\ c.domain = d.domain /\ c.path = d.path

Expired(c) == c.expires # SessionCookie /\ c.expires <= Clock

IsSuffix(suffix, seq) ==
    /\ Len(suffix) <= Len(seq)
    /\ SubSeq(seq, Len(seq) - Len(suffix) + 1, Len(seq)) = suffix

IsPrefix(prefix, seq) ==
    Len(prefix) <= Len(seq) /\ SubSeq(seq, 1, Len(prefix)) = prefix

\* the cookie is sent with a request to the url
Affects(c, url) ==
    /\ IsSuffix(c.domain, url.host)
    /\ IsPrefix(c.path, url.path)
    /\ c.secure => url.scheme = "https"

\* context.cookies(urls): all cookies for no urls, else those that affect
\* one of the urls
ContextCookies(jar, urls) ==
    IF urls = <<>> THEN jar
    ELSE SelectSeq(jar, LAMBDA c : \E j \in 1..Len(urls) : Affects(c, urls[j]))

\* the jar with one cookie set
SetCookie(jar, c) ==
    IF \E j \in 1..Len(jar) : SameCookie(jar[j], c)
    THEN IF Expired(c)
         THEN SelectSeq(jar, LAMBDA d : ~SameCookie(d, c))
         ELSE [j \in 1..Len(jar) |-> IF SameCookie(jar[j], c) THEN c ELSE jar[j]]
    ELSE IF Expired(c) THEN jar ELSE Append(jar, c)

\* context.addCookies(cs): the cookies are set one after the other
RECURSIVE SetCookies(_, _)
SetCookies(jar, cs) ==
    IF cs = <<>> THEN jar ELSE SetCookies(SetCookie(jar, Head(cs)), Tail(cs))

\* the latest calls, the newest last
Window == 3

Called(method, arg, result) ==
    LET all == Append(calls, [method |-> method, arg |-> arg, result |-> result])
    IN  IF Len(all) > Window THEN SubSeq(all, Len(all) - Window + 1, Len(all)) ELSE all

\* a getCookies that does not hand the urls on
getCookies_all(a, urls) ==
    /\ calls' = Called("getCookies", urls,
                       ContextCookies(cookies[abilityOf[a].page], <<>>))
    /\ UNCHANGED <<ownText, values, shown, changes, abilityOf, queue, idx,
                   status, ops, focus, builderVars, storageVars, cookies>>

getCookies(a, urls) ==
    /\ calls' = Called("getCookies", urls,
                       ContextCookies(cookies[abilityOf[a].page], urls))
    /\ UNCHANGED <<ownText, values, shown, changes, abilityOf, queue, idx,
                   status, ops, focus, builderVars, storageVars, cookies>>

addCookies(a, cs) ==
    /\ cookies' = [cookies EXCEPT ![abilityOf[a].page] = SetCookies(@, cs)]
    /\ calls' = Called("addCookies", cs, <<>>)
    /\ UNCHANGED <<ownText, values, shown, changes, abilityOf, queue, idx,
                   status, ops, focus, builderVars, storageVars>>

clearCookies(a) ==
    /\ cookies' = [cookies EXCEPT ![abilityOf[a].page] = <<>>]
    /\ calls' = Called("clearCookies", <<>>, <<>>)
    /\ UNCHANGED <<ownText, values, shown, changes, abilityOf, queue, idx,
                   status, ops, focus, builderVars, storageVars>>

(***************************************************************************)
(* Inputs.                                                                 *)
(***************************************************************************)
Google == <<"google", "com">>

\* the two cookies of the test; the first with another value; one that has
\* expired; one of a path below; one of another site, not secure
cookie1 == Cookie("cookie1", "someValue", Google, <<>>, 9, TRUE)

cookie2 == Cookie("cookie2", "val", Google, <<>>, SessionCookie, TRUE)

cookie1Again == Cookie("cookie1", "other", Google, <<>>, 9, TRUE)

cookieExpired == Cookie("cookie3", "val", Google, <<>>, 1, TRUE)

cookieOfPath == Cookie("cookie4", "val", Google, <<"mail">>, 9, TRUE)

cookieOfSite == Cookie("site", "val", <<"example", "com">>, <<>>, 9, FALSE)

CookieLists ==
    {<<cookie1, cookie2>>, <<cookie2, cookie1>>, <<cookie1, cookie1Again>>,
     <<cookie2, cookieExpired>>, <<cookieOfPath, cookieOfSite, cookie1>>, <<>>}

\* no urls; the url of the test; a page below it on a host below it; the
\* other site, and both
UrlLists ==
    {<<>>,
     <<Url("https", Google, <<>>)>>,
     <<Url("https", <<"www">> \o Google, <<"mail", "inbox">>)>>,
     <<Url("http", Google, <<>>)>>,
     <<Url("http", <<"example", "com">>, <<>>), Url("https", Google, <<>>)>>}

\* values JSON can express: the falsy ones (0, false, null, the empty
\* string) and others, among them a string with a quote in it and an array
\* with a comma inside a string
JSONValues ==
    {Num(0), Num(12), Bool(FALSE), Bool(TRUE), JSNull, Text(<<>>),
     Text(<<"a", "\"">>), List(<<Num(0), Text(<<",">>)>>)}

Bases == {"table", "tr", "td"}

Filters == {<<"b">>, <<"a", "b">>}

\* the options of one level: a text filter or none
LevelOptions == {NoOptions} \cup {With(NoOptions, "hasText", t) : t \in Filters}

\* the options of a chain nested at most d levels deep
RECURSIVE ChainOptions(_)
ChainOptions(d) ==
    IF d <= 0 THEN LevelOptions
    ELSE LevelOptions \cup
         {With(o, "subSelector", IF s = NoOptions THEN <<b>> ELSE <<b, s>>) :
            o \in LevelOptions, b \in Bases, s \in ChainOptions(d - 1)}

ResolveActivities ==
    {Wait_forSelector(b, o) : b \in Bases, o \in ChainOptions(MaxDepth - 1)}
    \cup {Click_on(b, o) : b \in Bases, o \in ChainOptions(MaxDepth - 1)}

\* the elements the questions are asked about: the first cell; the disabled
\* cell; the first cell of the row reading "aa", if any; no element
CheckTargets ==
    {<<"td", NoOptions>>,
     <<"td", With(NoOptions, "hasText", <<"b">>)>>,
     <<"tr", With(With(NoOptions, "hasText", <<"a", "a">>), "subSelector", <<"td">>)>>,
     <<"#missing", NoOptions>>}

Timeouts == {1}

CheckOptions(o) == {o} \cup {With(o, "timeout", t) : t \in Timeouts}

Builders == {Element_toBe, Element_notToBe, Element_toHave, Element_notToHave}

Questions ==
    UNION {UNION {
        {visible(e, c[1], o), enabled(e, c[1], o), editable(e, c[1], o)}
        \cup {text(e, c[1], Str(t), o) : t \in Texts}
        \cup {value(e, c[1], Str(t), o) : t \in {<<>>, <<"a">>}}
        \cup {value(e, c[1], Arr(t), o) : t \in {<<"a">>}}
        : o \in CheckOptions(c[2])} : e \in Builders, c \in CheckTargets}

\* the scenarios of the actors, after the steps of the tests
Scripts ==
    {<<Fill_in("td", <<"a">>), Click_on("tr", NoOptions)>>,
     <<Click_on("td", With(NoOptions, "hasText", <<"b">>)), Fill_in("td", <<"a">>)>>,
     <<Wait_forSelector("tr", With(With(With(NoOptions, "hasText", <<"a", "a">>),
                                        "subSelector", <<"td">>), "state", "visible")),
       Fill_in("td", <<"a">>),
       Click_on("td", NoOptions)>>,
     <<Ask(visible(Element_toBe, "td", With(NoOptions, "timeout", 1))),
       Click_on("tr", NoOptions)>>}

\* the state, timeout and modifiers a level of a chain may set
Settings ==
    {NoOptions,
     [state |-> "hidden"],
     [timeout |-> 1],
     [state |-> "attached", timeout |-> 3],
     [modifiers |-> <<"Alt">>]}

\* the levels of the page's tree, and of the test's chain: table, row, cell
TreeDepth == 3

\* the base of the j-th level of the chains below
BaseAt(j) == IF j = 1 THEN "table" ELSE IF j = 2 THEN "tr" ELSE "td"

\* the options of level j of a chain of d levels, every level with settings
RECURSIVE SettingChains(_, _)
SettingChains(j, d) ==
    IF j >= d THEN Settings
    ELSE {With(o, "subSelector", IF sub = NoOptions THEN <<BaseAt(j + 1)>>
                                 ELSE <<BaseAt(j + 1), sub>>) :
            o \in Settings, sub \in SettingChains(j + 1, d)}

\* chains that match nothing at some level, chains with a text filter, and
\* malformed chains: an empty base, a subSelector with no selector in it
OtherChains ==
    {<<"#missing", NoOptions>>,
     <<"#missing", [state |-> "visible", timeout |-> 1]>>,
     <<"table", [subSelector |-> <<"#missing", [subSelector |-> <<"td">>]>>]>>,
     <<"tr", [hasText |-> <<"b">>, subSelector |-> <<"#missing">>]>>,
     <<"tr", [hasText |-> <<"a", "b">>, subSelector |-> <<"td", [hasText |-> <<"b">>]>>]>>,
     <<"tr", [subSelector |-> <<"td", [hasText |-> <<"b">>]>>]>>,
     <<"", NoOptions>>,
     <<"table", [subSelector |-> <<"">>]>>,
     <<"table", [subSelector |-> <<>>]>>,
     <<"tr", [hasText |-> <<"b">>, state |-> "visible",
              subSelector |-> <<"td", [subSelector |-> <<>>]>>]>>}

EngineActivities ==
    UNION {{Wait_forSelector(BaseAt(1), o), Hover_over(BaseAt(1), o)} :
             o \in UNION {SettingChains(1, d) : d \in 1..TreeDepth}}
    \cup UNION {{Wait_forSelector(c[1], c[2]), Click_on(c[1], c[2]),
                 Hover_over(c[1], c[2])} : c \in OtherChains}
    \cup {Ask(visible(Element_toBe, BaseAt(1), o)) :
             o \in UNION {SettingChains(1, d) : d \in 1..2}}
    \cup {Fill_in(b, <<"a">>) : b \in {"td", "#missing", ""}}

\* the texts typed, and the elements typed into: the first cell, and the
\* first row, which the page may hide
TypedTexts == {<<"a">>, <<"b", "c">>}

TypeTargets == {"td", "tr"}

\* up to three Type actions in a row, in one element or in two; a Fill
\* followed by a Type
TypeScripts ==
    {<<Type_in(b, s)>> : b \in TypeTargets, s \in TypedTexts}
    \cup {<<Type_in(b, s), Type_in(c, t)>> :
            b \in TypeTargets, c \in TypeTargets, s \in TypedTexts, t \in TypedTexts}
    \cup {<<Type_in("td", s), Type_in(b, t), Type_in("td", u)>> :
            b \in TypeTargets, s \in TypedTexts, t \in TypedTexts, u \in TypedTexts}
    \cup {<<Fill_in("td", s), Type_in("td", t)>> : s \in TypedTexts, t \in TypedTexts}

\* the elements operated on: the first cell, with and without a state to
\* wait for; the disabled cell; the cell of the first row; no element; a
\* malformed chain
Operands ==
    {<<"td", NoOptions>>,
     <<"td", [state |-> "visible", timeout |-> 1]>>,
     <<"td", [hasText |-> <<"b">>, timeout |-> 1]>>,
     <<"tr", [state |-> "hidden", subSelector |-> <<"td">>]>>,
     <<"#missing", [state |-> "attached", timeout |-> 1]>>,
     <<"", [timeout |-> 1]>>}

\* the options of a dragAndDrop: none, or options of the source, of the
\* target, or of both
DragOptions ==
    {NoOptions,
     [target |-> [state |-> "visible", timeout |-> 1]],
     [source |-> [state |-> "visible", timeout |-> 1]],
     [source |-> [hasText |-> <<"a">>], target |-> [state |-> "attached"]]}

DragEnds == {"td", "tr", "#missing", ""}

ElementOperations ==
    UNION {{Hover_over(c[1], c[2]), Click_on(c[1], c[2]), Check_element(c[1], c[2]),
            DoubleClick_on(c[1], c[2]), Select_option(c[1], <<"a">>, c[2])} :
             c \in Operands}
    \cup {Fill_in(b, <<"a">>) : b \in {"td", "#missing", ""}}
    \cup {Type_in(b, <<"a">>) : b \in {"td", "#missing", ""}}

DragOperations ==
    {DragAndDrop_execute(src, tgt, o) :
        src \in DragEnds, tgt \in DragEnds, o \in DragOptions}

ElementChecks ==
    UNION {{Ask(visible(e, c[1], c[2])), Ask(enabled(e, c[1], c[2])),
            Ask(editable(e, c[1], c[2])), Ask(text(e, c[1], Str(<<"a">>), c[2])),
            Ask(value(e, c[1], Str(<<>>), c[2]))} :
             e \in {Element_toBe, Element_notToBe}, c \in Operands}

\* an operation or a check alone; a check and then an operation, and the
\* other way round, with the same selector and options
ActionScripts ==
    {<<act>> : act \in ElementOperations \cup DragOperations \cup ElementChecks}
    \cup UNION {{<<Ask(text(Element_toBe, c[1], Str(<<"b">>), c[2])), Click_on(c[1], c[2])>>,
                 <<Hover_over(c[1], c[2]), Ask(visible(Element_notToBe, c[1], c[2]))>>} :
                   c \in Operands}

\* an activity, alone or performed twice in a row; the Type scripts
EngineScripts ==
    {<<act>> : act \in EngineActivities}
    \cup {<<act, act>> : act \in {x \in EngineActivities : x.type = "Wait"}}
    \cup TypeScripts

(***************************************************************************)
(* Specifications.                                                         *)
(***************************************************************************)
\* one actor resolves chains of every shape on a page that stays as it is
InitResolve ==
    /\ Init
    /\ ownText[2] = ownText[1]
    /\ \A p \in Pages : shown[p] = Nodes

NextResolve ==
    \/ status[1] = "idle" /\ \E act \in ResolveActivities : attemptsTo(1, <<act>>)
    \/ Resume(1)
    \/ \E i \in 1..1 : LookupPass(1, i)
    \/ \E i \in 1..1 : StepPass(1, i)
    \/ \E i \in 1..1 : StepFail(1, i)
    \/ Tick

SpecResolve == InitResolve /\ [][NextResolve]_vars

\* one actor asks Element questions about a page that re-renders
InitCheck ==
    /\ Init
    /\ ownText[2] = ownText[1]
    /\ shown[2] = Nodes

NextCheck ==
    \/ status[1] = "idle" /\ \E q \in Questions : asks(1, q)
    \/ Resume(1)
    \/ \E i \in 1..1 : LookupPass(1, i)
    \/ \E i \in 1..1 : LookupFail(1, i)
    \/ \E i \in 1..1 : StepPass(1, i)
    \/ \E i \in 1..1 : StepFail(1, i)
    \/ Tick
    \/ \E n \in DynNodes : Render(1, n)

SpecCheck == InitCheck /\ [][NextCheck]_vars

\* one actor has chains of every kind resolved, well formed or not, on a
\* page that re-renders
InitEngine ==
    /\ Init
    /\ ownText[1][7] = <<"b">>
    /\ ownText[2] = ownText[1]
    /\ shown[2] = Nodes

NextEngine ==
    \/ status[1] = "idle" /\ \E script \in EngineScripts : attemptsTo(1, script)
    \/ Resume(1)
    \/ \E i \in 1..3 : LookupPass(1, i)
    \/ \E i \in 1..3 : LookupFail(1, i)
    \/ \E i \in 1..3 : LookupReject(1, i)
    \/ \E i \in 1..3 : StepPass(1, i)
    \/ \E i \in 1..3 : StepFail(1, i)
    \/ Tick
    \/ \E n \in DynNodes : Render(1, n)

SpecEngine == InitEngine /\ [][NextEngine]_vars

\* one actor performs element operations and checks, one or two in a row,
\* on a page that re-renders
InitActions ==
    /\ Init
    /\ ownText[1][7] = <<"b">>
    /\ ownText[2] = ownText[1]
    /\ shown[2] = Nodes

NextActions ==
    \/ status[1] = "idle" /\ \E script \in ActionScripts : attemptsTo(1, script)
    \/ Resume(1)
    \/ \E i \in 1..2 : LookupPass(1, i)
    \/ \E i \in 1..2 : LookupFail(1, i)
    \/ \E i \in 1..2 : LookupReject(1, i)
    \/ \E i \in 1..2 : StepPass(1, i)
    \/ \E i \in 1..2 : StepFail(1, i)
    \/ Tick
    \/ \E n \in DynNodes : Render(1, n)

SpecActions == InitActions /\ [][NextActions]_vars

\* the test code creates an Element, calls mode operators on it, any number
\* of them, and then has the actor ask it
BuilderSelectors == {"td", "#missing"}

BuilderOptions == {NoOptions, [timeout |-> 1]}

InitBuilder ==
    /\ Init
    /\ ownText[1][7] = <<"b">>
    /\ ownText[2] = ownText[1]
    /\ \A p \in Pages : shown[p] = Nodes

NextBuilder ==
    \/ \E b \in Builders : Element_new(b)
    \/ \E c \in BuilderSelectors : \E o \in BuilderOptions : Element_visible(c, o)
    \/ \E c \in BuilderSelectors : \E o \in BuilderOptions : Element_enabled(c, o)
    \/ \E c \in BuilderSelectors : \E o \in BuilderOptions : Element_editable(c, o)
    \/ \E c \in BuilderSelectors : \E o \in BuilderOptions :
          \E t \in {Str(<<"a">>), Arr(<<"a">>)} : Element_text(c, t, o)
    \/ \E c \in BuilderSelectors : \E o \in BuilderOptions :
          \E t \in {Str(<<>>), Str(<<"a">>)} : Element_value(c, t, o)
    \/ asks(1, element)
    \/ Resume(1)
    \/ LookupPass(1, 1)
    \/ LookupFail(1, 1)
    \/ LookupReject(1, 1)
    \/ StepPass(1, 1)
    \/ StepFail(1, 1)
    \/ Tick

SpecBuilder == InitBuilder /\ [][NextBuilder]_vars

\* one actor sets, gets and removes items of the two storage areas
InitStorage ==
    /\ Init
    /\ ownText[1][7] = <<"b">>
    /\ ownText[2] = ownText[1]
    /\ \A p \in Pages : shown[p] = Nodes

NextStorage ==
    \/ \E k \in Keys : getLocalStorageItem(1, k)
    \/ \E k \in Keys : \E v \in JSONValues : setLocalStorageItem(1, k, v)
    \/ \E k \in Keys : removeLocalStorageItem(1, k)
    \/ \E k \in Keys : getSessionStorageItem(1, k)
    \/ \E k \in Keys : \E v \in JSONValues : setSessionStorageItem(1, k, v)
    \/ \E k \in Keys : removeSessionStorageItem(1, k)

SpecStorage == InitStorage /\ [][NextStorage]_vars

\* one actor adds, gets and clears the cookies of its context
InitCookies == InitStorage

NextCookies ==
    \/ \E urls \in UrlLists : getCookies(1, urls)
    \/ \E cs \in CookieLists : addCookies(1, cs)
    \/ clearCookies(1)

SpecCookies == InitCookies /\ [][NextCookies]_vars

\* two actors, each with a page of its own, run their scenarios concurrently
InitActors ==
    /\ Init
    /\ ownText[1][7] = <<"a">>
    /\ ownText[2][7] = <<"b">>
    /\ \A p \in Pages : shown[p] = Nodes

Next ==
    \/ \E a \in Actors, s \in Scripts : attemptsTo(a, s)
    \/ \E a \in Actors : Resume(a)
    \/ \E a \in Actors, i \in 1..3 : LookupPass(a, i)
    \/ \E a \in Actors, i \in 1..3 : LookupFail(a, i)
    \/ \E a \in Actors, i \in 1..3 : StepPass(a, i)
    \/ \E a \in Actors, i \in 1..3 : StepFail(a, i)
    \/ Tick
    \/ \E p \in Pages, n \in DynNodes : Render(p, n)

Spec == InitActors /\ [][Next]_vars


(***************************************************************************)
(* Properties.                                                             *)
(***************************************************************************)
\* the selector and the options an activity was declared with
\* the levels of a chain, outermost first
RECURSIVE Levels(_, _)
Levels(selector, options) ==
    <<[base |-> selector, filter |-> hasTextOf(options)]>>
    \o (IF Has(options, "subSelector")
        THEN Levels(options.subSelector[1],
                    IF Len(options.subSelector) >= 2
                    THEN options.subSelector[2] ELSE NoOptions)
        ELSE <<>>)

\* one narrowing: the base query on the scope, then the level's text filter
NarrowOnce(own, scopeNodes, isPage, level) ==
    {n \in query(scopeNodes, isPage, level.base) :
        Contains(textOf(own, n), level.filter)}

\* the narrowings of the first m levels, one after the other, from the page
NarrowTo(own, levels, m) ==
    LET scopeAt[j \in 0..m] ==
            IF j = 0 THEN {}
            ELSE NarrowOnce(own, scopeAt[j - 1], j = 1, levels[j])
    IN  scopeAt[m]

RECURSIVE HandleDepth(_)
HandleDepth(h) == IF IsPage(h) THEN 0 ELSE 1 + HandleDepth(h.scope)

\* the Handle the first lookup of an operation returns
HandleOf(op) ==
    recursiveLocatorLookup(op.plan.lookups[1].page, op.plan.lookups[1].selector,
                           op.plan.lookups[1].options).handle

Started(a) == 1..Len(ops[a])

PastLookup(op) == op.pc \in {"step", "returned"} \/ (op.pc = "threw" /\ op.k = 0)

\* C1: for a chain of depth N the Handle resolve returns is N links deep and
\* stands for the nodes got by narrowing N times from the page, each time by
\* the level's base query and then its hasText filter, the filtered result
\* being the scope of the next level
C1_ChainNarrowsLevelByLevel ==
    \A i \in Started(1) :
        LET op == ops[1][i]
            act == queue[1][i]
            levels == Levels(SelectorOf(act), OptionsOf(act))
            N == Len(levels)
            own == ownText[abilityOf[1].page]
        IN  /\ HandleDepth(HandleOf(op)) = N
            /\ Materialize(own, HandleOf(op)) = NarrowTo(own, levels, N)
            /\ op.pc \in {"step", "returned"} =>
                 /\ op.found \in NarrowTo(own, levels, N) \cup {0}
                 /\ op.found = 0 <=> NarrowTo(own, levels, N) = {}

\* a three-level chain whose middle level's filter decides the result
C1_Witness ==
    /\ Len(ops[1]) = 1
    /\ queue[1][1].type = "Wait"
    /\ Len(Levels(SelectorOf(queue[1][1]), OptionsOf(queue[1][1]))) = 3
    /\ Levels(SelectorOf(queue[1][1]), OptionsOf(queue[1][1]))[2].filter = <<"a", "b">>
    /\ ownText[1][7] = <<"a">>
    /\ ops[1][1].pc = "returned"
    /\ Materialize(ownText[1], HandleOf(ops[1][1])) = {3, 4}
    /\ ops[1][1].found = 3

\* C2: where the base query of the innermost level matches the nodes K of
\* its scope and J of them have the level's hasText, the Handle stands for
\* exactly J
C2_HasTextSelectsExactly ==
    \A i \in Started(1) :
        LET op == ops[1][i]
            act == queue[1][i]
            levels == Levels(SelectorOf(act), OptionsOf(act))
            N == Len(levels)
            own == ownText[abilityOf[1].page]
            K == query(NarrowTo(own, levels, N - 1), N = 1, levels[N].base)
            J == {n \in K : Contains(textOf(own, n), levels[N].filter)}
            got == Materialize(own, HandleOf(op))
        IN  /\ got \subseteq J
            /\ J \subseteq got
            /\ Cardinality(got) = Cardinality(J)
            /\ op.pc \in {"step", "returned"} /\ J # {} => op.found \in J

\* a click on the cells reading "b": of the four cells, one or two
C2_Witness ==
    /\ Len(ops[1]) = 1
    /\ queue[1][1] = Click_on("td", With(NoOptions, "hasText", <<"b">>))
    /\ ops[1][1].pc = "step"
    /\ query({}, TRUE, "td") = {3, 4, 6, 7}
    /\ Materialize(ownText[1], HandleOf(ops[1][1])) \in {{4}, {4, 7}}
    /\ ops[1][1].found = 4

\* the state checks in flight or done: the questions whose answer is a method
IsCheck(a, i) == queue[a][i].type = "Element" /\ ops[a][i].plan # NoMethod

\* the limit a question was asked with
AskedLimit(a, i) == timeoutOf(queue[a][i].el.options)

\* C3: a state check ends in one of two ways: it returns true, the
\* predicate it waited for holding at that moment, or it fails with a
\* timeout error that carries the elapsed time and the limit, the predicate
\* not holding and the limit elapsed; it never returns false, and once its
\* one wait has failed nothing of it runs again
C3_TwoOutcomes ==
    /\ [](\A i \in Started(1) : IsCheck(1, i) /\ Completed(ops[1][i]) =>
            \/ /\ ops[1][i].pc = "returned"
               /\ ops[1][i].out = Value("true")
               /\ ~ops[1][i].timedOut
            \/ /\ ops[1][i].pc = "threw"
               /\ ops[1][i].timedOut
               /\ ops[1][i].out.kind = "error"
               /\ ops[1][i].out.name = "TimeoutError"
               /\ ops[1][i].out.limit = AskedLimit(1, i)
               /\ ops[1][i].out.elapsed >= ops[1][i].out.limit)
    /\ [][\A i \in Started(1) : IsCheck(1, i) =>
            /\ Completed(ops[1][i]) =>
                 /\ Len(ops'[1]) = Len(ops[1])
                 /\ ops'[1][i] = ops[1][i]
            /\ ~Completed(ops[1][i]) /\ ops'[1][i].pc = "returned" =>
                 /\ ops[1][i].pc = "step"
                 /\ StepOk(ops[1][i])
            /\ ~Completed(ops[1][i]) /\ ops'[1][i].pc = "threw" =>
                 /\ ops[1][i].wait >= AskedLimit(1, i)
                 /\ IF ops[1][i].pc = "step" THEN ~StepOk(ops[1][i])
                    ELSE ~LookupHolds(ops[1][i])]_vars

\* a check that the disabled cell is enabled has failed on the expectation,
\* after the cell was found visible
C3_Witness ==
    /\ Len(ops[1]) = 1
    /\ queue[1][1] = Ask(enabled(Element_toBe, "td",
                                 With(With(NoOptions, "hasText", <<"b">>), "timeout", 1)))
    /\ ops[1][1].pc = "threw"
    /\ ops[1][1].seen
    /\ ops[1][1].found = 4
    /\ ops[1][1].out = TimeoutError(1, 1)
    /\ status[1] = "failed"

\* C4: a state check resolves to true if the element is in the expected
\* state and resolves to false if the timeout was reached
C4_ResolvesFalseOnTimeout ==
    \A i \in Started(1) : IsCheck(1, i) /\ Completed(ops[1][i]) =>
        /\ ops[1][i].pc = "returned"
        /\ ops[1][i].out = IF ops[1][i].timedOut THEN Value("false") ELSE Value("true")

\* the nodes the chain an activity names stands for
Matches(a, i) ==
    LET levels == Levels(SelectorOf(queue[a][i]), OptionsOf(queue[a][i]))
    IN  NarrowTo(ownText[abilityOf[a].page], levels, Len(levels))

\* C5: a check for visible of a chain that matches nothing, asked with the
\* timeout T, fails with a timeout error no earlier than T and no later than
\* T plus the slack after it started, its whole time being that of the one
\* wait in the lookup; until then it waits, never longer than that
C5_NeverMatchingFailsAtTimeout ==
    \A i \in Started(1) :
        (/\ IsCheck(1, i)
         /\ queue[1][i].el.mode = "visible"
         /\ queue[1][i].el.checkMode = "toBe"
         /\ Matches(1, i) = {}) =>
            LET op == ops[1][i]
                T == AskedLimit(1, i)
            IN  /\ op.pc \in {"lookup", "threw"}
                /\ op.k = 1
                /\ op.total <= T + Slack
                /\ op.pc = "threw" =>
                     /\ op.out.kind = "error"
                     /\ op.out.name = "TimeoutError"
                     /\ op.out.limit = T
                     /\ op.out.elapsed = op.total
                     /\ T <= op.total

\* the row reading "aa" is not on the page; the check for its cell, asked
\* with the timeout 1, has failed after 1
C5_Witness ==
    /\ Len(ops[1]) = 1
    /\ queue[1][1].el.mode = "visible"
    /\ queue[1][1].el.checkMode = "toBe"
    /\ queue[1][1].el.selector = "tr"
    /\ AskedLimit(1, 1) = 1
    /\ Matches(1, 1) = {}
    /\ ops[1][1].pc = "threw"
    /\ ops[1][1].total = 1
    /\ ops[1][1].out = TimeoutError(1, 1)

Interactivity == {"toBeEnabled", "toBeDisabled", "toBeEditable", "notToBeEditable"}

\* C9: a check for enabled, disabled, editable or not editable looks its
\* element up with the state visible; its expectation is put only to an
\* element the lookup found visible, and a check whose element was not
\* found visible has failed if it has ended
C9_InteractivityNeedsVisible ==
    \A i \in Started(1) :
        IsCheck(1, i) /\ queue[1][i].el.mode \in {"enabled", "editable"} =>
            LET op == ops[1][i]
            IN  /\ op.plan.step \in Interactivity
                /\ Len(op.plan.lookups) = 1
                /\ Has(op.plan.lookups[1].options, "state")
                /\ op.plan.lookups[1].options.state = "visible"
                /\ op.pc \in {"step", "returned"} => op.seen /\ op.found # 0
                /\ Completed(op) /\ ~op.seen =>
                     op.pc = "threw" /\ op.out.name = "TimeoutError"

\* the disabled cell's row is not rendered: the check that the cell is
\* disabled has failed in the lookup
C9_Witness ==
    /\ Len(ops[1]) = 1
    /\ queue[1][1].el.mode = "enabled"
    /\ queue[1][1].el.checkMode = "notToBe"
    /\ Matches(1, 1) = {4, 7}
    /\ 2 \notin shown[1]
    /\ changes = 0
    /\ ops[1][1].pc = "threw"
    /\ ~ops[1][1].seen
    /\ ops[1][1].k = 1

\* the question asking for the opposite
Negated(el) ==
    [el EXCEPT !.checkMode = IF @ = "toBe" THEN "notToBe" ELSE "toBe"]

\* on the page as it is, the lookup of the method passes and its step holds
Succeeds(plan) ==
    LET L == plan.lookups[1]
        R == recursiveLocatorLookup(L.page, L.selector, L.options)
        t == Target(ownText[L.page], R.handle)
    IN  /\ Has(R.options, "state") => StateHolds(R.options.state, shown[L.page], t)
        /\ StepHolds(plan.step, plan.arg, ownText[L.page], values[L.page],
                     shown[L.page], t)

\* the expectation and the lookup state a question of a kind and mode asks for
Asked(el) ==
    CASE el.mode = "visible" ->
           IF el.checkMode = "toBe" THEN <<"toBeVisible", "visible">>
           ELSE <<"toBeHidden", "hidden">>
      [] el.mode = "enabled" ->
           IF el.checkMode = "toBe" THEN <<"toBeEnabled", "visible">>
           ELSE <<"toBeDisabled", "visible">>
      [] el.mode = "editable" ->
           IF el.checkMode = "toBe" THEN <<"toBeEditable", "visible">>
           ELSE <<"notToBeEditable", "visible">>
      [] el.mode = "text" ->
           IF el.checkMode = "toBe" THEN <<"toHaveText", "visible">>
           ELSE <<"notToHaveText", "visible">>
      [] el.mode = "value" ->
           IF el.checkMode = "toBe" THEN <<"toHaveValue", "visible">>
           ELSE <<"notToHaveValue", "visible">>

\* the element of a question is rendered
ElementVisible(a, i) ==
    LET c == Matches(a, i)
    IN  c # {} /\ Visible(shown[abilityOf[a].page], CHOOSE x \in c : \A y \in c : x <= y)

\* a question and its opposite, on the page as it is: the question's own
\* method is the one in flight, and on a page that never changed its outcome
\* is what the page says
Polarity(a, i) ==
    LET el == queue[a][i].el
        op == ops[a][i]
    IN  /\ op.plan.step = Asked(el)[1]
        /\ op.plan.lookups[1].options.state = Asked(el)[2]
        /\ op.plan = answeredBy(el, abilityOf[a]).method
        /\ changes = 0 /\ Completed(op) => (op.pc = "returned" <=> Succeeds(op.plan))

OppositePlan(a, i) == answeredBy(Negated(queue[a][i].el), abilityOf[a]).method

\* C10 as stated: a toBe/toHave question asks for the positive state and a
\* notToBe/notToHave question for the negated one, a visibility question
\* looking its element up in the state it asks for; and whatever the state
\* of the element, exactly one of a question and its opposite succeeds
C10_ExactlyOneSucceeds ==
    \A i \in Started(1) : IsCheck(1, i) =>
        /\ Polarity(1, i)
        /\ Succeeds(ops[1][i].plan) # Succeeds(OppositePlan(1, i))

\* C10: the polarity is that of the requested kind; never do a question and
\* its opposite both succeed; exactly one of them succeeds for a visibility
\* question, and for any other kind when the element is visible; for another
\* kind on an element that is not visible neither succeeds
C10_PolarityPerKind ==
    \A i \in Started(1) : IsCheck(1, i) =>
        /\ Polarity(1, i)
        /\ ~(Succeeds(ops[1][i].plan) /\ Succeeds(OppositePlan(1, i)))
        /\ queue[1][i].el.mode = "visible" \/ ElementVisible(1, i) =>
             Succeeds(ops[1][i].plan) \/ Succeeds(OppositePlan(1, i))
        /\ queue[1][i].el.mode # "visible" /\ ~ElementVisible(1, i) =>
             ~Succeeds(ops[1][i].plan) /\ ~Succeeds(OppositePlan(1, i))

\* no element of the page matches: the question whether it is disabled has
\* failed, and the question whether it is enabled would fail too
C10_Witness ==
    /\ Len(ops[1]) = 1
    /\ queue[1][1].el.mode = "enabled"
    /\ queue[1][1].el.checkMode = "notToBe"
    /\ queue[1][1].el.selector = "#missing"
    /\ Matches(1, 1) = {}
    /\ changes = 0
    /\ ops[1][1].pc = "threw"
    /\ ops[1][1].out.name = "TimeoutError"
    /\ ~Succeeds(ops[1][1].plan)
    /\ ~Succeeds(OppositePlan(1, 1))

\* C6: the activities of an attemptsTo are performed in the order they were
\* declared in: the i-th started is the i-th declared, an activity starts
\* only once the one before it has completed, and at most one activity of
\* an actor is in progress
C6_DeclarationOrder ==
    /\ [](\A a \in Actors :
            /\ Len(ops[a]) = idx[a]
            /\ Len(ops[a]) <= Len(queue[a])
            /\ Cardinality(InFlight(a)) <= 1
            /\ \A i \in Started(a) :
                 /\ ops[a][i].plan.step =
                      performAs(queue[a][i], abilityOf[a]).method.step
                 /\ i < Len(ops[a]) => ops[a][i].pc = "returned")
    /\ [][\A a \in Actors :
            Len(ops'[a]) # Len(ops[a]) =>
              /\ Len(ops'[a]) = Len(ops[a]) + 1
              /\ \A i \in Started(a) : ops[a][i].pc = "returned"
              /\ \A i \in Started(a) : ops'[a][i] = ops[a][i]]_vars

\* the third activity of a scenario is in progress, at a suspension point,
\* the two before it done, while the other actor is in progress too
C6_Witness ==
    /\ Len(queue[1]) = 3
    /\ Len(ops[1]) = 3
    /\ ops[1][1].pc = "returned"
    /\ ops[1][2].pc = "returned"
    /\ ops[1][3].pc = "step"
    /\ ops[1][3].wait = 1
    /\ InFlight(2) # {}

\* C7: an activity that failed with a timeout is the last of its actor to
\* have been started, and its actor's attemptsTo never ends as done; the
\* step in which the wait fails changes nothing of any other actor, whose
\* waits in flight stay in flight
C7_TimeoutHaltsOnlyItsActor ==
    /\ [](\A a \in Actors : \A i \in Started(a) :
            ops[a][i].timedOut =>
               /\ Completed(ops[a][i])
               /\ Len(ops[a]) = i
               /\ status[a] \in {"running", "failed"})
    /\ [][\A a \in Actors : \A i \in Started(a) :
            ~ops[a][i].timedOut /\ ops'[a][i].timedOut =>
               \A b \in Actors \ {a} :
                  /\ queue'[b] = queue[b] /\ idx'[b] = idx[b]
                  /\ status'[b] = status[b] /\ ops'[b] = ops[b]
                  /\ values'[abilityOf[b].page] = values[abilityOf[b].page]]_vars

\* the first actor's click timed out with an activity left in its queue,
\* which was never started; the second actor has done both activities of
\* its scenario
C7_Witness ==
    /\ status[1] = "failed"
    /\ Len(ops[1]) = 1
    /\ Len(queue[1]) = 2
    /\ queue[1][1].type = "Click"
    /\ ops[1][1].timedOut
    /\ ops[1][1].out.name = "TimeoutError"
    /\ status[2] = "done"
    /\ Len(ops[2]) = 2
    /\ ops[2][2].pc = "returned"

\* the Handle an actor would obtain for an activity running alone: the
\* resolution of the activity's chain on the actor's own page
AloneHandle(a, i) ==
    recursiveLocatorLookup(a, SelectorOf(queue[a][i]), OptionsOf(queue[a][i])).handle

\* C8: each of two actors with pages of their own obtains the Handle it
\* would obtain alone, and finds what that Handle stands for on its own
\* page, whatever the other is doing; a step of one actor changes neither
\* the operations nor the page of the other
C8_ActorsIndependent ==
    /\ [](\A a \in Actors : \A i \in Started(a) :
            /\ HandleOf(ops[a][i]) = AloneHandle(a, i)
            /\ PastLookup(ops[a][i]) /\ ops[a][i].plan.step # "none" =>
                 ops[a][i].found = Target(ownText[a], AloneHandle(a, i)))
    /\ [][\A a \in Actors :
            /\ values'[a] # values[a] =>
                 \E i \in Started(a) :
                    /\ queue[a][i].type = "Fill"
                    /\ ops[a][i].pc = "step" /\ ops'[a][i].pc = "returned"
            /\ \A i \in Started(a) :
                 ops[a][i].pc # ops'[a][i].pc =>
                    \A b \in Actors \ {a} :
                       \A j \in Started(b) : ops'[b][j] = ops[b][j]]_vars

\* both actors wait for the first cell of the row reading "aa": the first
\* has found it on its page, the second, whose page has no such row, is
\* still waiting
C8_Witness ==
    /\ queue[1] = queue[2]
    /\ Len(queue[1]) = 3
    /\ queue[1][1].type = "Wait"
    /\ ops[1][1].pc = "returned"
    /\ ops[1][1].found = 6
    /\ Len(ops[2]) = 1
    /\ ops[2][1].pc = "lookup"
    /\ ops[2][1].wait = 1
    /\ Target(ownText[2], AloneHandle(2, 1)) = 0

\* a question for the value of an element that carries an array
IsArrayValue(a, i) ==
    /\ queue[a][i].type = "Element"
    /\ queue[a][i].el.mode = "value"
    /\ queue[a][i].el.payload.isArray

\* C11: a question for a value whose payload is an array has failed with
\* the error of answeredBy as soon as it is asked: no ability method was
\* started, so no selector was resolved, nothing waited and no time passed,
\* and the failure is no timeout
C11_ArrayPayloadFailsFast ==
    /\ [](\A i \in Started(1) : IsArrayValue(1, i) =>
            /\ ops[1][i].pc = "threw"
            /\ ops[1][i].plan = NoMethod
            /\ ops[1][i].plan.lookups = <<>>
            /\ ops[1][i].k = 0
            /\ ops[1][i].found = 0
            /\ ops[1][i].wait = 0 /\ ops[1][i].total = 0
            /\ ~ops[1][i].timedOut
            /\ ops[1][i].out =
                 Error("Element.value: incompatible payload! Arrays can not be checked."))
    /\ [][\A i \in Started(1) : IsArrayValue(1, i) => ops'[1][i] = ops[1][i]]_vars

\* an array was asked of the first cell with a timeout of 1: the question
\* has failed and the actor's step has ended
C11_Witness ==
    /\ Len(ops[1]) = 1
    /\ queue[1][1] = Ask(value(Element_toHave, "td", Arr(<<"a">>),
                               With(NoOptions, "timeout", 1)))
    /\ ops[1][1].pc = "threw"
    /\ ops[1][1].out.name = "Error"
    /\ status[1] = "failed"

\* the state, timeout and modifiers each level of a chain sets itself,
\* outermost level first
RECURSIVE OwnSettings(_)
OwnSettings(options) ==
    <<Pick(options, Inherited)>>
    \o (IF Has(options, "subSelector")
        THEN OwnSettings(IF Len(options.subSelector) >= 2
                         THEN options.subSelector[2] ELSE NoOptions)
        ELSE <<>>)

\* what is in effect at level j: for every field, the value of the nearest
\* level at or above j that sets it
Effective(own, j) ==
    LET sets(f) == {i \in 1..j : f \in DOMAIN own[i]}
        nearest(f) == CHOOSE i \in sets(f) : \A k \in sets(f) : k <= i
    IN  [f \in {g \in Inherited : sets(g) # {}} |-> own[nearest(f)][f]]

\* an operation whose lookup is of a well-formed chain
WellFormedOp(a, i) ==
    /\ ops[a][i].plan # NoMethod
    /\ WellFormed(ops[a][i].plan.lookups[1].selector,
                  ops[a][i].plan.lookups[1].options)

\* the first lookup of an operation, resolved
FirstResolved(op) ==
    recursiveLocatorLookup(op.plan.lookups[1].page, op.plan.lookups[1].selector,
                           op.plan.lookups[1].options)

\* at every level of the chain resolve was given, the settings in effect
\* are the level's own where it sets them and the enclosing levels' where
\* it does not; the wait of the lookup is for the state and with the
\* timeout in effect at the innermost level
MergedInResolve(a, i) ==
    LET op == ops[a][i]
        own == OwnSettings(op.plan.lookups[1].options)
        r == FirstResolved(op)
        eff == Effective(own, Len(own))
    IN  /\ Len(r.steps) = Len(own)
        /\ \A j \in 1..Len(own) :
              /\ r.steps[j].inEffect = Effective(own, j)
              /\ \A f \in DOMAIN own[j] : r.steps[j].inEffect[f] = own[j][f]
        /\ Pick(r.options, Inherited) = eff
        /\ op.pc = "lookup" =>
              /\ LookupWaits(op) <=> "state" \in DOMAIN eff
              /\ LookupWaits(op) => Limit(op) = timeoutOf(eff)

\* the settings the step of a method takes: the timeout of an expectation,
\* the modifiers of a hover
StepSettings(step) ==
    CASE step = "hover"        -> {"modifiers"}
      [] step \in {"toBeVisible", "toBeHidden"} -> {"timeout"}
      [] OTHER                 -> {}

\* C12: where state, timeout or modifiers are set on several levels of a
\* chain, the inner level's value is the one in effect at the inner level,
\* an outer value reaching the innermost level only for a field left unset
\* there: in the lookup, and in the step on the innermost level's Handle;
\* a state the caller sets is the state the lookup is given
C12_InnerSettingsInEffect ==
    \A i \in Started(1) : WellFormedOp(1, i) =>
        /\ MergedInResolve(1, i)
        /\ LET own == OwnSettings(OptionsOf(queue[1][i]))
           IN  ops[1][i].plan.stepOptions =
                 Pick(Effective(own, Len(own)), StepSettings(ops[1][i].plan.step))
        /\ Has(OptionsOf(queue[1][i]), "state") =>
              ops[1][i].plan.lookups[1].options.state = OptionsOf(queue[1][i]).state

\* the part of the above that is resolve's: the merge down the levels
MergeHoldsInResolve ==
    \A i \in Started(1) : WellFormedOp(1, i) => MergedInResolve(1, i)


\* the base of some level of the activity's chain matches no node of the
\* scope the levels before it narrow to
ZeroMatch(a, i) ==
    LET levels == Levels(SelectorOf(queue[a][i]), OptionsOf(queue[a][i]))
        own == ownText[abilityOf[a].page]
    IN  \E j \in 1..Len(levels) :
           query(NarrowTo(own, levels, j - 1), j = 1, levels[j].base) = {}

Malformed(a, i) ==
    /\ ops[a][i].plan # NoMethod
    /\ ~WellFormed(SelectorOf(queue[a][i]), OptionsOf(queue[a][i]))

\* C14: the lookup of a malformed chain fails with InvalidSpec and with
\* nothing else, at once: until it has failed no time passes, nothing is
\* queried, no Handle is had and no step taken; once it has failed the
\* actor starts nothing more
C14_MalformedFailsAtOnce ==
    \A i \in Started(1) : Malformed(1, i) =>
        LET op == ops[1][i]
        IN  /\ FirstResolved(op).invalid
            /\ FirstResolved(op).steps = <<>>
            /\ op.pc \in {"lookup", "threw"}
            /\ op.k = 1
            /\ op.wait = 0 /\ op.total = 0
            /\ op.queries = 0
            /\ op.found = 0 /\ ~op.seen
            /\ ~op.timedOut
            /\ op.pc = "threw" => op.out = Error("InvalidSpec")
            /\ op.pc = "threw" => Len(ops[1]) = i /\ status[1] \in {"running", "failed"}
            /\ op.pc = "lookup" => op.out = None

\* the chain's innermost subSelector names no selector, its outermost level
\* filters by text and asks for the state visible: the hover has failed
C14_Witness ==
    /\ Len(ops[1]) = 1
    /\ queue[1][1] = Hover_over("tr", [hasText |-> <<"b">>, state |-> "visible",
                                       subSelector |-> <<"td", [subSelector |-> <<>>]>>])
    /\ ops[1][1].pc = "threw"
    /\ ops[1][1].out = Error("InvalidSpec")
    /\ ops[1][1].queries = 0
    /\ status[1] = "failed"

\* an action on a well-formed chain no level of which has a text filter and
\* for which no state is asked
PlainChain(a, i) ==
    /\ queue[a][i].type # "Element"
    /\ WellFormedOp(a, i)
    /\ \A j \in 1..Len(Levels(SelectorOf(queue[a][i]), OptionsOf(queue[a][i]))) :
          Levels(SelectorOf(queue[a][i]), OptionsOf(queue[a][i]))[j].filter = <<>>
    /\ \A j \in 1..Len(OwnSettings(OptionsOf(queue[a][i]))) :
          ~Has(OwnSettings(OptionsOf(queue[a][i]))[j], "state")

SameChainTwice(a, i, j) ==
    /\ i < j
    /\ queue[a][i].type = "Wait"
    /\ queue[a][j] = queue[a][i]
    /\ ops[a][j].pc # "lookup"

Narrowed(step) == [scope |-> step.scope, base |-> step.base, filter |-> step.filter]

\* the narrowing steps of resolve follow the levels of the chain: one step
\* for each level, the first on the page, each next one on the Handle the
\* step before it produced, and the Handle returned is the last step's
StepsFollowLevels(steps, levels, page, handle) ==
    /\ Len(steps) = Len(levels)
    /\ \A j \in 1..Len(steps) :
          /\ steps[j].base = levels[j].base
          /\ steps[j].filter = levels[j].filter
          /\ steps[j].scope = IF j = 1 THEN PageScope(page)
                              ELSE Narrowed(steps[j - 1])
          /\ HandleDepth(steps[j].scope) = j - 1
    /\ handle = Narrowed(steps[Len(steps)])

\* C20: resolve ends for every well-formed chain; for a chain of depth N it
\* takes exactly N narrowing steps, from the outermost level to the
\* innermost, none taken twice, and returns the Handle of the innermost; a
\* lookup that waits for no state ends without time passing
C20_ResolveTakesNSteps ==
    \A i \in Started(1) :
        LET act == queue[1][i]
            op == ops[1][i]
        IN  (WellFormed(SelectorOf(act), OptionsOf(act)) /\ WellFormedOp(1, i)) =>
               /\ StepsFollowLevels(FirstResolved(op).steps,
                                    Levels(SelectorOf(act), OptionsOf(act)),
                                    abilityOf[1].page, HandleOf(op))
               /\ Len(FirstResolved(op).steps) <= TreeDepth
               /\ (op.pc = "lookup" /\ ~LookupWaits(op)) => op.wait = 0

\* a hover over a three-level chain has its Handle after three steps
C20_Witness ==
    /\ Len(ops[1]) = 1
    /\ queue[1][1].type = "Hover"
    /\ Len(FirstResolved(ops[1][1]).steps) = 3
    /\ HandleDepth(HandleOf(ops[1][1])) = 3
    /\ ops[1][1].pc = "step"
    /\ ops[1][1].found = 3

\* the actor's script is Type actions only, all on one selector
TypesInto(a, selector) ==
    /\ queue[a] # <<>>
    /\ \A i \in 1..Len(queue[a]) :
          queue[a][i].type = "Type" /\ queue[a][i].locator = selector

\* the texts of the first n actions of the script that have ended, in the
\* order of the script
RECURSIVE TypedSoFar(_, _)
TypedSoFar(a, n) ==
    IF n = 0 THEN <<>>
    ELSE TypedSoFar(a, n - 1)
         \o (IF ops[a][n].pc = "returned" THEN queue[a][n].input ELSE <<>>)

\* C19: Type actions on one selector accumulate: on an element that was
\* empty and that stays rendered, enabled and editable, the content after
\* the Type actions with texts s1, ..., sn is s1 \o ... \o sn, and after each
\* of them the concatenation of the texts typed so far
C19_TypeAccumulates ==
    \A selector \in TypeTargets :
        LET t == Target(ownText[1], resolve(PageScope(1), selector, NoOptions).handle)
        IN  (TypesInto(1, selector) /\ changes = 0
               /\ Visible(shown[1], t) /\ Editable(t)) =>
              /\ values[1][t] = TypedSoFar(1, Len(ops[1]))
              /\ \A i \in Started(1) : ops[1][i].pc # "threw"
              /\ status[1] = "done" => Len(ops[1]) = Len(queue[1])

\* three Type actions into the first cell have ended and the cell holds the
\* three texts in the order typed
C19_Witness ==
    /\ TypesInto(1, "td")
    /\ status[1] = "done"
    /\ Len(ops[1]) = 3
    /\ queue[1][1].input = <<"b", "c">>
    /\ queue[1][2].input = <<"a">>
    /\ queue[1][3].input = <<"b", "c">>
    /\ values[1][3] = <<"b", "c", "a", "b", "c">>

\* the storage area a get reads
AreaOf(method) ==
    CASE method = "getLocalStorageItem"   -> "local"
      [] method = "getSessionStorageItem" -> "session"

\* C17: a get resolves to the value last set for the key in its area, and
\* to undefined for a key never set or removed since; so for the falsy
\* values 0, false, null and the empty string as for any other
C17_StorageRoundTrip ==
    answer.method \in {"getLocalStorageItem", "getSessionStorageItem"} =>
        answer.result = written[AreaOf(answer.method)][abilityOf[1].page][answer.key]

\* a get of a key set to 0 while the other area holds another value for it
C17_Witness ==
    /\ answer = Answer("getLocalStorageItem", "localKey", Num(0))
    /\ written["local"][1]["localKey"] = Num(0)
    /\ written["session"][1]["localKey"] = Text(<<>>)
    /\ localStorage[1]["localKey"] = Text(<<"0">>)
    /\ sessionStorage[1]["localKey"] = Text(<<"\"", "\"">>)

\* the n-th latest call, 1 for the last one
Latest(n) == calls[Len(calls) - n + 1]

\* the last calls were clearCookies and then getCookies
GetAfterClear ==
    /\ Len(calls) >= 2
    /\ Latest(2).method = "clearCookies"
    /\ Latest(1).method = "getCookies"

\* the last calls were clearCookies, addCookies and then getCookies()
GetAfterClearAndAdd ==
    /\ Len(calls) >= 3
    /\ Latest(3).method = "clearCookies"
    /\ Latest(2).method = "addCookies"
    /\ Latest(1).method = "getCookies"
    /\ Latest(1).arg = <<>>

\* after clearCookies, getCookies resolves to the empty list
ClearedIsEmpty == GetAfterClear => Latest(1).result = <<>>

\* getCookies(urls) resolves to the cookies of the context that affect one
\* of the urls, and to no other, in the order of the context
OnlyAffecting ==
    (calls # <<>> /\ Latest(1).method = "getCookies" /\ Latest(1).arg # <<>>) =>
        /\ \A j \in 1..Len(Latest(1).result) :
              \E u \in 1..Len(Latest(1).arg) :
                  Affects(Latest(1).result[j], Latest(1).arg[u])
        /\ Latest(1).result
             = SelectSeq(cookies[abilityOf[1].page],
                         LAMBDA c : \E u \in 1..Len(Latest(1).arg) :
                                       Affects(c, Latest(1).arg[u]))

\* no two cookies of the list are the same cookie and none has expired
DistinctAndLive(cs) ==
    /\ \A i, j \in 1..Len(cs) : SameCookie(cs[i], cs[j]) => i = j
    /\ \A i \in 1..Len(cs) : ~Expired(cs[i])

ForcedState(el) ==
    IF el.mode = "visible" /\ el.checkMode = "notToBe" THEN "hidden" ELSE "visible"

\* C21: the options object the caller passed is as it was constructed after
\* every element operation and check, whatever their outcome; a check
\* method hands its lookup a new object with the caller's fields and the
\* state it forces, any other method the caller's options as they are
C21_OptionsNotMutated ==
    \A i \in Started(1) :
        LET act == queue[1][i]
            op == ops[1][i]
        IN  /\ op.left = OptionsOf(act)
            /\ act.type = "Element" =>
                 op.plan.lookups[1].options
                   = With(OptionsOf(act), "state", ForcedState(act.el))
            /\ act.type \in {"Hover", "Click", "Check", "DoubleClick", "Select"} =>
                 op.plan.lookups[1].options = OptionsOf(act)
            /\ act.type = "DragAndDrop" =>
                 /\ op.plan.lookups[1].options = Part(OptionsOf(act), "target")
                 /\ op.plan.lookups[2].options = Part(OptionsOf(act), "source")

\* a text check with a timeout in its options has ended, and a click with
\* the same options after it: the options hold the timeout and no state
C21_Witness ==
    /\ Len(ops[1]) = 2
    /\ queue[1][1].type = "Element"
    /\ queue[1][1].el.mode = "text"
    /\ OptionsOf(queue[1][1]) = [hasText |-> <<"b">>, timeout |-> 1]
    /\ ops[1][1].plan.lookups[1].options
         = [hasText |-> <<"b">>, timeout |-> 1, state |-> "visible"]
    /\ ops[1][1].pc = "returned"
    /\ ops[1][1].left = [hasText |-> <<"b">>, timeout |-> 1]
    /\ ops[1][2].pc = "threw"
    /\ ops[1][2].left = [hasText |-> <<"b">>, timeout |-> 1]

ElementOperationTypes ==
    {"Hover", "Check", "Fill", "Type", "Click", "DoubleClick", "Select"}

\* the operation ended in its lookup
FailedInLookup(op) == op.pc = "threw" /\ op.queries <= LookupQueries(op)

\* C22: an element operation acts on the element once, and only after its
\* lookup has ended: not while the lookup is in flight, once when the
\* operation has returned.  An operation whose lookup fails has not acted
\* and ends with the lookup's failure, which ends the actor's script; no
\* operation is started anew
C22_ActsOnceAfterLookup ==
    \A i \in Started(1) :
        LET op == ops[1][i]
        IN  queue[1][i].type \in ElementOperationTypes =>
              /\ op.acted <= 1
              /\ op.pc = "lookup" => op.acted = 0
              /\ op.pc = "step" => op.acted = 0 /\ op.k = 1
              /\ op.pc = "returned" => op.acted = 1 /\ op.out = Value(op.plan.returns)
              /\ op.pc = "threw" =>
                   /\ op.acted = 0
                   /\ op.out = Error("InvalidSpec") <=> FirstResolved(op).invalid
                   /\ ~FirstResolved(op).invalid =>
                        /\ op.out.name = "TimeoutError"
                        /\ op.out.limit = IF FailedInLookup(op)
                                          THEN timeoutOf(FirstResolved(op).options)
                                          ELSE timeoutOf(op.plan.stepOptions)
                   /\ (status[1] # "running") => status[1] = "failed"
              /\ Len(ops[1]) <= Len(queue[1])

\* the lookup of a double click timed out waiting for its element: nothing
\* was clicked, the actor's script has failed with the timeout
C22_Witness ==
    /\ Len(ops[1]) = 1
    /\ queue[1][1] = DoubleClick_on("#missing", [state |-> "attached", timeout |-> 1])
    /\ ops[1][1].pc = "threw"
    /\ ops[1][1].acted = 0
    /\ ops[1][1].out.kind = "error"
    /\ ops[1][1].out.name = "TimeoutError"
    /\ ops[1][1].queries = 1
    /\ status[1] = "failed"

\* the j-th lookup of an operation, resolved
LookupOf(op, j) ==
    recursiveLocatorLookup(op.plan.lookups[j].page, op.plan.lookups[j].selector,
                           op.plan.lookups[j].options)

\* the queries of the j-th lookup of an operation
QueriesOf(op, j) ==
    CountEager(LookupOf(op, j).steps)
    + (IF Has(LookupOf(op, j).options, "state") THEN 1 ELSE 0)

\* C23: dragAndDrop looks the target up first and the source second and
\* drags only after both lookups have ended.  While the target is looked up
\* nothing of the source has been queried; when the target's lookup fails
\* the operation ends there, the source not looked up (whatever the source
\* is, malformed or not) and nothing dragged; when the source's lookup
\* fails nothing is dragged
C23_DragResolvesTargetThenSource ==
    \A i \in Started(1) :
        LET act == queue[1][i]
            op == ops[1][i]
        IN  act.type = "DragAndDrop" =>
              /\ Len(op.plan.lookups) = 2
              /\ op.plan.lookups[1].selector = act.target
              /\ op.plan.lookups[2].selector = act.source
              /\ op.k = 1 => op.pc \in {"lookup", "threw"} /\ op.acted = 0
              /\ (op.k = 1 /\ op.pc = "lookup") => op.queries = 0
              /\ (op.k = 1 /\ op.pc = "threw") =>
                   /\ op.queries <= QueriesOf(op, 1)
                   /\ op.out = Error("InvalidSpec") <=> LookupOf(op, 1).invalid
              /\ (op.k = 2 /\ op.pc = "lookup") =>
                   op.queries = QueriesOf(op, 1) /\ op.acted = 0
              /\ op.pc = "step" => op.k = 2 /\ op.acted = 0
              /\ op.pc = "threw" => op.acted = 0
              /\ op.pc = "returned" =>
                   /\ op.k = 2
                   /\ op.acted = 1
                   /\ op.queries = QueriesOf(op, 1) + QueriesOf(op, 2) + 1
              /\ (Completed(op) /\ LookupOf(op, 1).invalid) => op.k = 1
              /\ (Completed(op) /\ ~LookupOf(op, 1).invalid /\ LookupOf(op, 2).invalid) =>
                   op.pc = "threw"

\* the target, waited for, did not show: the drag has ended with the
\* timeout, and the source, a malformed selector, was never looked up
C23_Witness ==
    /\ Len(ops[1]) = 1
    /\ queue[1][1] = DragAndDrop_execute("", "#missing",
                         [target |-> [state |-> "visible", timeout |-> 1]])
    /\ ops[1][1].pc = "threw"
    /\ ops[1][1].k = 1
    /\ ops[1][1].out.name = "TimeoutError"
    /\ ops[1][1].acted = 0
    /\ status[1] = "failed"

Modes == {"visible", "enabled", "editable", "text", "value"}

\* C24: on an Element built with the mode operators, whatever their
\* sequence, mode is one of the five modes answeredBy handles and the
\* payload is no array whenever mode is value; so asking it throws neither
\* "Element.value: incompatible payload! Arrays can not be checked." nor
\* "Unknown mode: Element.answeredBy"
C24_BuilderErrorsUnreachable ==
    /\ element.mode \in Modes
    /\ element.mode = "value" => ~element.payload.isArray
    /\ \A i \in Started(1) :
          /\ ops[1][i].plan # NoMethod
          /\ ops[1][i].out # Error("Unknown mode: Element.answeredBy")
          /\ ops[1][i].out
               # Error("Element.value: incompatible payload! Arrays can not be checked.")

\* the Element asked was built with value as its last mode operator: it has
\* mode value and the text of that call as its payload, and its check ran
C24_Witness ==
    /\ Len(ops[1]) = 1
    /\ queue[1][1].el = element
    /\ element.mode = "value"
    /\ element.payload = Str(<<>>)
    /\ element.selector = "td"
    /\ ops[1][1].plan.step = "toHaveValue"
    /\ ops[1][1].pc = "returned"

\* the expectation a check of the mode and the polarity awaits
StepOfCheck(mode, checkMode) ==
    CASE mode = "visible"  -> IF checkMode = "toBe" THEN "toBeVisible" ELSE "toBeHidden"
      [] mode = "enabled"  -> IF checkMode = "toBe" THEN "toBeEnabled" ELSE "toBeDisabled"
      [] mode = "editable" -> IF checkMode = "toBe" THEN "toBeEditable" ELSE "notToBeEditable"
      [] mode = "text"     -> IF checkMode = "toBe" THEN "toHaveText" ELSE "notToHaveText"
      [] mode = "value"    -> IF checkMode = "toBe" THEN "toHaveValue" ELSE "notToHaveValue"

\* C25: an Element asked runs one check, that of the last mode operator
\* called on it: one ability method with one lookup, of the selector and
\* with the options of the last call, for the mode of the last call and in
\* the polarity the Element was created with; the polarity of the Element
\* is the one it was created with at all times
C25_LastModeOperatorDecides ==
    /\ element.checkMode = built.checkMode
    /\ \A i \in Started(1) :
          LET op == ops[1][i]
              forced == IF built.last.mode = "visible" /\ built.checkMode = "notToBe"
                        THEN "hidden" ELSE "visible"
          IN  /\ Len(ops[1]) = 1
              /\ queue[1] = <<Ask(element)>>
              /\ op.plan # NoMethod
              /\ Len(op.plan.lookups) = 1
              /\ op.plan.lookups[1].selector = built.last.selector
              /\ op.plan.lookups[1].options = With(built.last.options, "state", forced)
              /\ op.plan.stepOptions = Pick(built.last.options, {"timeout"})
              /\ op.plan.step = StepOfCheck(built.last.mode, built.checkMode)
              /\ built.last.mode \in {"text", "value"} =>
                    op.plan.arg = built.last.payload.v
              /\ op.acted <= 1

\* an Element created with notToHave, on which text was called last, with
\* a timeout, has been asked about the missing element and has returned
C25_Witness ==
    /\ Len(ops[1]) = 1
    /\ built.checkMode = "notToBe"
    /\ built.last = ModeCall("text", "#missing", Arr(<<"a">>), [timeout |-> 1])
    /\ element.payload = Arr(<<"a">>)
    /\ ops[1][1].plan.step = "notToHaveText"
    /\ ops[1][1].plan.stepOptions = [timeout |-> 1]
    /\ ops[1][1].pc = "threw"
    /\ ops[1][1].timedOut

=============================================================================
